---- MODULE Spec2Model ----
(***************************************************************************)
(* Model of the g3dradarprocess element (GstRadarProcess): its lifecycle   *)
(* (start / stop / finalize), the engine binding through dlopen / dlsym,   *)
(* the aligned scratch buffer, and the per-frame driver transform_ip with  *)
(* its rate control; and of the gvafpsthrottle element (GstGvaFpsThrottle).*)
(*                                                                         *)
(* filter : the fields of struct _GstRadarProcess                          *)
(* world  : what the fields point at - the loaded module, the scratch      *)
(*          block, the engine handle - and what the host has done          *)
(* last   : the most recent handler call, its return value, the events     *)
(*          (library, heap and engine calls) it performed, in order, and   *)
(*          the memory and call faults it committed                        *)
(* hist   : the number of frames whose three stages returned success and   *)
(*          that the process outlived, the frame ids of the attached       *)
(*          records in emission order, and how many frames had completed   *)
(*          when a stage last failed since the element was started         *)
(* throttle : the fields of struct _GstGvaFpsThrottle                      *)
(* clock  : the latest reading of the clock the limiters read, and how     *)
(*          many frames have read it                                       *)
(* cube   : one run of transform_ip's reorder loops: the dimensions, the   *)
(*          loop counters, and where each sample written so far came from  *)
(* window : one call of dc_removal: the samples of a (chirp, channel)       *)
(*          window before the call and after it                            *)
(* heap   : the result records on the frames' buffers, the heap arrays they *)
(*          own, and the engine's arrays and views they were built from    *)
(* file   : the configuration file the radar_config path names, whether a  *)
(*          start has read it, what load_from_json returned and the        *)
(*          RadarConfig object it filled                                   *)
(***************************************************************************)
EXTENDS Integers, Sequences, FiniteSets, TLC

VARIABLES filter, world, last, hist, throttle, clock, cube, file, window, heap

vars == <<filter, world, last, hist, throttle, clock, cube, file, window, heap>>

-----------------------------------------------------------------------------
(* Bounds of the model *)

\* frames the element processes to the end in one run of the model
MaxFrames == 2

\* references to libradar this process may hold at once
MaxLibRefs == 2

\* base-256 limbs of an unbounded number (72 bits: no product below wraps)
NumLimbs == 9

\* frames that read the clock in one run of the model
MaxPasses == 2

\* the largest dimension of the radar cubes whose reorder is run to the end
MaxDim == 3

\* (chirp, channel) windows one run of the reorder loops is followed for
MaxWindows == 9

\* the longest window dc_removal is applied to
MaxCount == 3

\* frames that get a result record in one run
MaxRecords == 2

\* buffers in one run: the frames and one copy
MaxBuffers == 3

\* max_points and max_clusters of the configuration in force
MaxPoints == 2

MaxClusters == 2

-----------------------------------------------------------------------------
(* Program constants *)

\* sizeof(guint): num_rx, num_tx, num_chirps, adc_samples, trn
GUINT_BYTES == 4

\* sizeof(size_t): expected_size, total_samples, map.size
SIZE_T_BYTES == 8

\* sizeof(std::complex<float>)
SIZEOF_COMPLEX_FLOAT == 8

\* const int maxTrackingLen = 64
maxTrackingLen == 64

\* std::complex<float> temp_samples[256]
TEMP_SAMPLES == 256

NULL == "NULL"

\* a non-null pointer value
PTR == "PTR"

\* A GstClockTime: nanoseconds, kept as whole microseconds and the
\* nanoseconds left over.
Time(us, ns) == [us |-> us, ns |-> ns]

Zero == Time(0, 0)

\* ((GstClockTime) -1): guint64 values from 2^63 up are written as the
\* negative numbers they are in two's complement, so all ones is -1 ns
GST_CLOCK_TIME_NONE == Time(-1, 999)

GST_SECOND == Time(1000000, 0)

\* the largest int, in nanoseconds
INT_MAX == Time(2147483, 647)

R_SUCCESS == "R_SUCCESS"

\* RadarErrorCode: the one success value and two of the other values
RadarErrorCode == {R_SUCCESS, "R_ERROR_1", "R_ERROR_2"}

GST_FLOW_OK == "GST_FLOW_OK"

GST_FLOW_ERROR == "GST_FLOW_ERROR"

\* the six entry points, in the order start resolves them
Symbols ==
    <<"radarGetMemSize", "radarInitHandle", "radarDetection",
      "radarClustering", "radarTracking", "radarDestroyHandle">>

SymbolSet == {Symbols[i] : i \in 1..Len(Symbols)}

-----------------------------------------------------------------------------
(* Unsigned arithmetic with the widths of the C types.  A number is a      *)
(* little-endian tuple of NumLimbs base-256 limbs; guint arithmetic keeps  *)
(* GUINT_BYTES of them, size_t arithmetic SIZE_T_BYTES.                    *)

RECURSIVE Limbs(_, _)
Limbs(n, k) == IF k = 0 THEN <<>> ELSE <<n % 256>> \o Limbs(n \div 256, k - 1)

\* the number n (0 <= n < 2^31) as limbs
Num(n) == Limbs(n, NumLimbs)

RECURSIVE ColSum(_, _, _, _)
ColSum(a, b, k, i) ==
    IF i > k THEN 0 ELSE a[i] * b[k - i + 1] + ColSum(a, b, k, i + 1)

RECURSIVE MulFrom(_, _, _, _)
MulFrom(a, b, k, carry) ==
    IF k > NumLimbs
    THEN <<>>
    ELSE LET s == ColSum(a, b, k, 1) + carry
         IN  <<s % 256>> \o MulFrom(a, b, k + 1, s \div 256)

\* the exact product (schoolbook multiplication over the limbs)
NumMul(a, b) == MulFrom(a, b, 1, 0)

RECURSIVE WrapFrom(_, _, _)
WrapFrom(a, bytes, i) ==
    IF i > NumLimbs
    THEN <<>>
    ELSE <<IF i <= bytes THEN a[i] ELSE 0>> \o WrapFrom(a, bytes, i + 1)

\* conversion to an unsigned type of the given size: the value modulo 2^(8*bytes)
Wrap(a, bytes) == WrapFrom(a, bytes, 1)

\* a * b where both operands are guint: the product modulo 2^32
GuintMul(a, b) == Wrap(NumMul(a, b), GUINT_BYTES)

\* a * b after the usual arithmetic conversions to size_t: modulo 2^64
SizeMul(a, b) == Wrap(NumMul(a, b), SIZE_T_BYTES)

RECURSIVE PredFrom(_, _, _)
PredFrom(a, i, borrow) ==
    IF i > NumLimbs
    THEN <<>>
    ELSE IF borrow
    THEN <<IF a[i] = 0 THEN 255 ELSE a[i] - 1>> \o PredFrom(a, i + 1, a[i] = 0)
    ELSE <<a[i]>> \o PredFrom(a, i + 1, FALSE)

\* a - 1, for a # 0
NumPred(a) == PredFrom(a, 1, TRUE)

RECURSIVE AddFrom(_, _, _, _)
AddFrom(a, b, i, carry) ==
    IF i > NumLimbs
    THEN <<>>
    ELSE LET s == a[i] + b[i] + carry
         IN  <<s % 256>> \o AddFrom(a, b, i + 1, s \div 256)

\* the exact sum
NumAdd(a, b) == AddFrom(a, b, 1, 0)

\* a + b where both operands are guint: the sum modulo 2^32
GuintAdd(a, b) == Wrap(NumAdd(a, b), GUINT_BYTES)

RECURSIVE LessFrom(_, _, _)
LessFrom(a, b, i) ==
    IF i = 0 THEN FALSE
    ELSE IF a[i] # b[i] THEN a[i] < b[i]
    ELSE LessFrom(a, b, i - 1)

\* a < b
NumLess(a, b) == LessFrom(a, b, NumLimbs)

RECURSIVE IntFrom(_, _)
IntFrom(a, i) == IF i > NumLimbs THEN 0 ELSE a[i] + 256 * IntFrom(a, i + 1)

\* the limbs a as a number, for a below 2^31
ToInt(a) == IntFrom(a, 1)

-----------------------------------------------------------------------------
(* float arithmetic (IEEE 754 binary32, round to nearest, ties to even).  A  *)
(* float is a kind ("fin", "inf", "nan"), a sign s (1 or -1), and for a      *)
(* finite one a significand m and an exponent e with value s * m * 2^e:      *)
(* m = 0 and e = 0 for zero, 2^23 <= m < 2^24 otherwise.  The inputs of the  *)
(* model keep every result above the subnormal range.                        *)

RECURSIVE Pow2(_)
Pow2(n) == IF n = 0 THEN 1 ELSE 2 * Pow2(n - 1)

RECURSIVE BitLen(_)
BitLen(n) == IF n = 0 THEN 0 ELSE 1 + BitLen(n \div 2)

\* the bits of the significand
FLT_MANT_DIG == 24

\* the exponent of the last place of the largest finite floats
FLT_MAX_E == 104

Fin(s, m, e) == [k |-> "fin", s |-> s, m |-> m, e |-> e]

Inf(s) == [k |-> "inf", s |-> s, m |-> 0, e |-> 0]

NaN == [k |-> "nan", s |-> 1, m |-> 0, e |-> 0]

FZero == Fin(1, 0, 0)

\* the largest finite float, (2^24 - 1) * 2^104
FLT_MAX == Fin(1, Pow2(FLT_MANT_DIG) - 1, FLT_MAX_E)

\* the float nearest to s * (n + f) * 2^e, for 0 <= n < 2^31 and a fraction
\* 0 <= f < 1 that is not zero exactly when `sticky` (n has 26 bits or more
\* then)
RoundFin(s, n, e, sticky) ==
    IF n = 0 THEN FZero ELSE
    LET len == BitLen(n)
    IN  IF len <= FLT_MANT_DIG
        THEN Fin(s, n * Pow2(FLT_MANT_DIG - len), e - (FLT_MANT_DIG - len))
        ELSE LET drop == len - FLT_MANT_DIG
                 q == n \div Pow2(drop)
                 r == n % Pow2(drop)
                 half == Pow2(drop - 1)
                 up == r > half \/ (r = half /\ (sticky \/ q % 2 = 1))
                 m == IF up THEN q + 1 ELSE q
                 carry == m = Pow2(FLT_MANT_DIG)
                 mm == IF carry THEN Pow2(FLT_MANT_DIG - 1) ELSE m
                 ee == IF carry THEN e + drop + 1 ELSE e + drop
             IN  IF ee > FLT_MAX_E THEN Inf(s) ELSE Fin(s, mm, ee)

Abs(n) == IF n < 0 THEN -n ELSE n

Sign(n) == IF n < 0 THEN -1 ELSE 1

\* a + b for finite a and b that are not zero, the exponent of a not below
\* that of b
AddOrdered(a, b) ==
    LET d == a.e - b.e
    IN  IF d <= 6
        THEN LET n == a.s * a.m * Pow2(d) + b.s * b.m
             IN  RoundFin(Sign(n), Abs(n), b.e, FALSE)
        ELSE LET shift == d - 6
                 whole == IF shift > FLT_MANT_DIG THEN 0 ELSE b.m \div Pow2(shift)
                 sticky == IF shift > FLT_MANT_DIG THEN TRUE
                           ELSE b.m % Pow2(shift) # 0
                 n == IF a.s = b.s THEN a.m * 64 + whole
                      ELSE a.m * 64 - whole - (IF sticky THEN 1 ELSE 0)
             IN  RoundFin(a.s, n, a.e - 6, sticky)

\* a + b
FAdd(a, b) ==
    IF a.k = "nan" \/ b.k = "nan" THEN NaN
    ELSE IF a.k = "inf" /\ b.k = "inf" THEN (IF a.s = b.s THEN a ELSE NaN)
    ELSE IF a.k = "inf" THEN a
    ELSE IF b.k = "inf" THEN b
    ELSE IF b.m = 0 THEN a
    ELSE IF a.m = 0 THEN b
    ELSE IF a.e >= b.e THEN AddOrdered(a, b) ELSE AddOrdered(b, a)

FNeg(a) == IF a.k = "nan" \/ (a.k = "fin" /\ a.m = 0) THEN a ELSE [a EXCEPT !.s = -a.s]

\* a - b
FSub(a, b) == FAdd(a, FNeg(b))

\* a / count, the size_t count (0 < count <= 32) converted to float
FDivCount(a, count) ==
    IF a.k # "fin" \/ a.m = 0 THEN a
    ELSE LET n == a.m * 128
         IN  RoundFin(a.s, n \div count, a.e - 7, n % count # 0)

-----------------------------------------------------------------------------
(* GstClockTime arithmetic (guint64 nanoseconds) *)

\* a + b
TimeAdd(a, b) ==
    [us |-> a.us + b.us + ((a.ns + b.ns) \div 1000), ns |-> (a.ns + b.ns) % 1000]

\* a - b, which wraps when b is the larger
TimeSub(a, b) ==
    IF a.ns >= b.ns
    THEN [us |-> a.us - b.us, ns |-> a.ns - b.ns]
    ELSE [us |-> a.us - b.us - 1, ns |-> a.ns + 1000 - b.ns]

\* a < b, unsigned
TimeLess(a, b) ==
    IF (a.us < 0) # (b.us < 0)
    THEN b.us < 0
    ELSE a.us < b.us \/ (a.us = b.us /\ a.ns < b.ns)

\* GST_TIME_AS_USECONDS(t): t / 1000
GST_TIME_AS_USECONDS(t) == t.us

\* GST_CLOCK_TIME_IS_VALID(t)
GST_CLOCK_TIME_IS_VALID(t) == t # GST_CLOCK_TIME_NONE

\* A frame rate (a gdouble) as the fraction num / den.
Rate(num, den) == [num |-> num, den |-> den]

\* (GstClockTime)(GST_SECOND / rate), for a rate above zero
SecondsPer(rate) ==
    LET us == GST_SECOND.us * rate.den
    IN  [us |-> us \div rate.num, ns |-> ((us % rate.num) * 1000) \div rate.num]

\* The rates an application sets: none, 10 and 3 frames a second, and one
\* frame in four seconds.  (The property's minimum is 0.0: GObject does not
\* pass a negative value on.)
Rates == {Rate(0, 1), Rate(10, 1), Rate(3, 1), Rate(1, 4)}

-----------------------------------------------------------------------------
(* Configuration input *)

\* RadarConfig(): the defaults of the constructor
DefaultRadarConfig ==
    [num_rx |-> 4, num_tx |-> 2, num_chirps |-> 64, adc_samples |-> 256]

\* what load_from_json leaves in the RadarConfig for the files of the model:
\* one with no override, and one describing a large array (64 x 64 channels,
\* 4096 chirps)
ConfigFiles ==
    { DefaultRadarConfig,
      [num_rx |-> 64, num_tx |-> 64, num_chirps |-> 4096, adc_samples |-> 256] }

\* The keys load_from_json looks up in the first element of the section
\* "RadarBasicConfig", in the order it assigns them, and the one of
\* "RadarClusteringConfig" the model follows.  (The other keys of the four
\* sections are read in the same way into fields the model does not hold.)
BasicKeys == <<"numRx", "numTx", "adcSamples", "numChirps">>

ClusteringKeys == <<"maxPoints">>

\* the member of RadarConfig each key is assigned to
FieldOf ==
    [numRx |-> "num_rx", numTx |-> "num_tx", adcSamples |-> "adc_samples",
     numChirps |-> "num_chirps", maxPoints |-> "max_points"]

\* RadarConfig(): the members the model follows, with the values the
\* constructor gives them
RadarConfig ==
    [num_rx |-> 4, num_tx |-> 2, num_chirps |-> 64, adc_samples |-> 256,
     max_points |-> 1000]

\* the number a file of the model gives for a key
Override ==
    [numRx |-> 2, numTx |-> 3, adcSamples |-> 128, numChirps |-> 32,
     maxPoints |-> 500]

\* A section as the parsed document holds it: absent, an empty array, a
\* value that is not an array, or an array whose first element has the
\* given entries (a key with a number, or with a string where a number is
\* expected).
Section(shape, first) == [shape |-> shape, first |-> first]

Entries(keys, kind) ==
    {[key |-> keys[i], type |-> kind[i], n |-> Override[keys[i]]] :
        i \in {k \in 1..Len(keys) : kind[k] # "none"}}

Sections(keys) ==
    {Section(shape, {}) : shape \in {"absent", "empty", "object"}}
    \cup {Section("array", Entries(keys, kind)) :
             kind \in [1..Len(keys) -> {"none", "number", "string"}]}

\* The files of the model: one that cannot be opened, one that is not JSON,
\* and the documents made of the two sections.
Documents ==
    {[state |-> st, basic |-> Section("absent", {}),
      clustering |-> Section("absent", {})] : st \in {"unreadable", "malformed"}}
    \cup {[state |-> "parsed", basic |-> b, clustering |-> c] :
             b \in Sections(BasicKeys), c \in Sections(ClusteringKeys)}

\* no file is followed, and no start has called load_from_json
NoFile ==
    [doc |-> [state |-> "unreadable", basic |-> Section("absent", {}),
              clustering |-> Section("absent", {})],
     read |-> FALSE, ok |-> FALSE, config |-> RadarConfig]

-----------------------------------------------------------------------------
(* RadarConfig::load_from_json (radar_config.hpp) *)

\* j.contains(name) && j[name].is_array() && !j[name].empty()
HasSection(section) == section.shape = "array"

\* first.contains(key)
Contains(first, key) == \E e \in first : e.key = key

Entry(first, key) == CHOOSE e \in first : e.key = key

\* if (first.contains(key)) member = first[key], for the keys from the i-th
\* on; a value that is not a number throws, which ends the load
RECURSIVE AssignFrom(_, _, _, _)
AssignFrom(r, first, keys, i) ==
    IF i > Len(keys) \/ ~r.ok THEN r
    ELSE IF ~Contains(first, keys[i]) THEN AssignFrom(r, first, keys, i + 1)
    ELSE IF Entry(first, keys[i]).type # "number" THEN [r EXCEPT !.ok = FALSE]
    ELSE AssignFrom([r EXCEPT !.config[FieldOf[keys[i]]] = Entry(first, keys[i]).n],
                    first, keys, i + 1)

\* lines 86-111, 143-157: one section
ParseSection(r, section, keys) ==
    IF r.ok /\ HasSection(section) THEN AssignFrom(r, section.first, keys, 1) ELSE r

\* a load that takes a section for read when one of its values throws
LoadIgnoringBadValues(doc) ==
    LET r == ParseSection(ParseSection([ok |-> TRUE, config |-> RadarConfig],
                                       doc.basic, BasicKeys),
                          doc.clustering, ClusteringKeys)
    IN  [r EXCEPT !.ok = doc.state = "parsed"]

\* lines 75-182, on a RadarConfig fresh from its constructor: the value
\* returned and the members of the object afterwards
load_from_json(doc) ==
    IF doc.state # "parsed" THEN [ok |-> FALSE, config |-> RadarConfig] ELSE
    ParseSection(ParseSection([ok |-> TRUE, config |-> RadarConfig],
                              doc.basic, BasicKeys),
                 doc.clustering, ClusteringKeys)

-----------------------------------------------------------------------------
(* State *)

\* gst_radar_process_init (the instance memory is zero-filled by GObject, so
\* radar_handle, which init does not assign, starts as a null pointer and the
\* vectors start empty)
FilterInit ==
    [ radar_config          |-> NULL,
      frame_rate            |-> Rate(0, 1),
      frame_duration        |-> GST_CLOCK_TIME_NONE,
      last_frame_time       |-> GST_CLOCK_TIME_NONE,
      num_rx                |-> Num(0),
      num_tx                |-> Num(0),
      num_chirps            |-> Num(0),
      adc_samples           |-> Num(0),
      trn                   |-> Num(0),
      frame_id              |-> 0,
      total_frames          |-> 0,
      total_processing_time |-> 0,
      input_data            |-> Num(0),
      output_data           |-> Num(0),
      tracking_desc_buf     |-> 0,
      radar_handle          |-> NULL,
      radar_buffer          |-> NULL,
      radar_buffer_size     |-> 0,
      libradar_handle       |-> NULL,
      fn                    |-> [s \in SymbolSet |-> NULL] ]

\* The libradar.so installed on the machine: a build exporting the six entry
\* points, or one that lacks one of them.
Libraries == {SymbolSet} \cup {SymbolSet \ {s} : s \in SymbolSet}

\* gst_gva_fps_throttle_init
ThrottleInit ==
    [ target_fps       |-> Rate(0, 1),
      last_buffer_time |-> GST_CLOCK_TIME_NONE,
      frame_duration   |-> Zero ]

\* The process around the element: which element the pipeline holds, the
\* symbols the installed libradar exports, how many references to it the
\* dynamic loader holds, the block posix_memalign returned, the handle the
\* engine built inside it, whether the host has the element started, and
\* whether the object was finalized or the process has ended in a crash.
WorldInit ==
    [ element   |-> "g3dradarprocess",
      exports   |-> SymbolSet,
      libRefs   |-> 0,
      scratch   |-> "none",
      engine    |-> "none",
      started   |-> FALSE,
      finalized |-> FALSE,
      crashed   |-> FALSE ]

\* no average was printed
NoAverage == [total |-> 0, frames |-> 0]

\* What a frame's pass through the limiter did: how the element's clock
\* was ("unread" when the limiter did not run, "none" when the element has
\* no clock, "held" when a reference other than the handler's keeps it alive,
\* "released" when the handler's reference was the last), the time read on
\* arrival, whether a sleep was asked for and for how long, and the time
\* stored as the limiter's timestamp.
NoLimit ==
    [clock |-> "unread", arrival |-> GST_CLOCK_TIME_NONE, slept |-> FALSE,
     wait |-> Zero, stored |-> GST_CLOCK_TIME_NONE]

LastInit ==
    [op |-> "init", ret |-> "", log |-> <<>>, faults |-> {}, size |-> Num(0),
     avg_time |-> NoAverage, lim |-> NoLimit]

\* The reorder loops of a frame of the given dimensions, before their first
\* window: the counters c and t, the windows done, the pairs <<output_idx,
\* input_idx>> of the samples stored in output_data, the number of such
\* stores, the accesses made outside an array, and how the run has ended.
CubeOf(config) ==
    [ trn |-> config.trn, num_chirps |-> config.num_chirps,
      adc_samples |-> config.adc_samples,
      c |-> 0, t |-> 0, windows |-> 0,
      from |-> {}, stores |-> 0, faults |-> {}, ended |-> "" ]

\* ------------------------------------------------------------------------
\* The result record: GstRadarProcessMeta, the arrays it owns on the heap,
\* and the engine's views it is built from
\* ------------------------------------------------------------------------

\* a pointer that points at nothing
nullptr == 0

\* the element's views of the engine's results point into seven arrays:
\* RadarPointClouds.range/speed/angle/snr, ClusterResult.idx/cd and
\* TrackingResult.td (the element's own tracking_desc_buf)
EngineAddr == [range |-> 1, speed |-> 2, angle |-> 3, snr |-> 4,
               idx |-> 5, cd |-> 6, td |-> 7]

EngineArrays == 7

\* the arrays of the record, in the order the code allocates them, with the
\* view and the pointer of the view each is filled from and the member of
\* the element (ClusterDescription.cx, TrackingDescription.sHat[0]) it takes
Arrays == <<
    [meta |-> "ranges",      group |-> "points",   src |-> "range", member |-> 1],
    [meta |-> "speeds",      group |-> "points",   src |-> "speed", member |-> 2],
    [meta |-> "angles",      group |-> "points",   src |-> "angle", member |-> 3],
    [meta |-> "snrs",        group |-> "points",   src |-> "snr",   member |-> 4],
    [meta |-> "cluster_idx", group |-> "clusters", src |-> "idx",   member |-> 5],
    [meta |-> "cluster_cx",  group |-> "clusters", src |-> "cd",    member |-> 6],
    [meta |-> "cluster_cy",  group |-> "clusters", src |-> "cd",    member |-> 7],
    [meta |-> "cluster_rx",  group |-> "clusters", src |-> "cd",    member |-> 8],
    [meta |-> "cluster_ry",  group |-> "clusters", src |-> "cd",    member |-> 9],
    [meta |-> "cluster_av",  group |-> "clusters", src |-> "cd",    member |-> 10],
    [meta |-> "tracker_ids", group |-> "tracks",   src |-> "td",    member |-> 11],
    [meta |-> "tracker_x",   group |-> "tracks",   src |-> "td",    member |-> 12],
    [meta |-> "tracker_y",   group |-> "tracks",   src |-> "td",    member |-> 13],
    [meta |-> "tracker_vx",  group |-> "tracks",   src |-> "td",    member |-> 14],
    [meta |-> "tracker_vy",  group |-> "tracks",   src |-> "td",    member |-> 15] >>

ArrayNames == {Arrays[k].meta : k \in 1..Len(Arrays)}

\* the value of memory nothing has written yet, or that lies past an array
Indeterminate == -1

\* what the engine wrote for member `member` of element i of its result for
\* frame gen: every frame, member and element has a value of its own
EngineCell(gen, member, i) == gen * 10000 + member * 100 + i

\* the number of elements behind an engine pointer: max_points, max_clusters
\* and the maxTrackingLen elements of tracking_desc_buf
Capacity(addr) ==
    IF addr \in 1..4 THEN MaxPoints
    ELSE IF addr \in 5..6 THEN MaxClusters
    ELSE maxTrackingLen

\* the views as start leaves them: no results, the point and cluster arrays
\* unset, td on tracking_desc_buf
ViewsInit ==
    [points   |-> [len |-> 0, maxLen |-> MaxPoints, range |-> nullptr,
                   speed |-> nullptr, angle |-> nullptr, snr |-> nullptr],
     clusters |-> [n |-> 0, idx |-> nullptr, cd |-> nullptr],
     tracks   |-> [len |-> 0, maxLen |-> maxTrackingLen, td |-> EngineAddr.td]]

\* what a frame's three engine calls can leave in the views: how many
\* points, clusters and tracks they report and which arrays they set
EngineResult(points, clusters, tracks, unset) ==
    LET p(name) == IF name \in unset THEN nullptr ELSE EngineAddr[name]
    IN  [points   |-> [len |-> points, maxLen |-> MaxPoints, range |-> p("range"),
                       speed |-> p("speed"), angle |-> p("angle"), snr |-> p("snr")],
         clusters |-> [n |-> clusters, idx |-> p("idx"), cd |-> p("cd")],
         tracks   |-> [len |-> tracks, maxLen |-> maxTrackingLen, td |-> p("td")]]

EngineResults ==
    { EngineResult(0, 0, 0, {}),
      EngineResult(MaxPoints, 1, 1, {}),
      EngineResult(1, MaxClusters, 0, {}),
      EngineResult(MaxPoints, 1, 1, {"snr"}),
      EngineResult(MaxPoints, 1, 1, {"cd"}),
      EngineResult(MaxPoints, 1, 1, {"idx"}),
      EngineResult(MaxPoints + 1, 1, 1, {}),
      EngineResult(MaxPoints, 1, maxTrackingLen + 1, {}) }

\* the heap: the frame the engine's arrays hold results of and whether the
\* engine still exists, the views, the blocks g_new has returned (block k
\* lives at address EngineArrays + k), the buffers with the records on them
\* and the results each record was built from, and the faults committed
NoHeap == [gen |-> 0, engine_live |-> TRUE, views |-> ViewsInit, blocks |-> <<>>,
           bufs |-> <<>>, faults |-> {}, crashed |-> FALSE]

\* element i of the array at addr, read as member `member`
ReadAt(h, addr, member, i) ==
    IF addr \in 1..EngineArrays
    THEN IF h.engine_live /\ i <= Capacity(addr)
         THEN EngineCell(h.gen, member, i)
         ELSE Indeterminate
    ELSE LET b == h.blocks[addr - EngineArrays]
         IN  IF b.state = "live" /\ i <= Len(b.data) THEN b.data[i] ELSE Indeterminate

\* gst_radar_process_meta_init: no frame, no results, no arrays
gst_radar_process_meta_init ==
    [frame_id |-> 0, point_clouds_len |-> 0, num_clusters |-> 0,
     num_tracked_objects |-> 0, arr |-> [a \in ArrayNames |-> nullptr]]

\* the count the record takes for a group of arrays: the engine's, when it
\* is positive and - for clusters and tracks - the description array is set
GroupCount(views, group) ==
    CASE group = "points" ->
           IF views.points.len > 0 THEN views.points.len ELSE 0
      [] group = "clusters" ->
           IF views.clusters.n > 0 /\ views.clusters.cd # nullptr
           THEN views.clusters.n ELSE 0
      [] group = "tracks" ->
           IF views.tracks.len > 0 /\ views.tracks.td # nullptr
           THEN views.tracks.len ELSE 0

\* the record's pointer for entry a of Arrays set to the engine's own array:
\* nothing allocated, nothing copied
KeepEnginePointer(b, a, n) ==
    [b EXCEPT !.rec.arr[a.meta] = b.heap.views[a.group][a.src]]

\* g_new n elements for entry a of Arrays and fill them: memcpy from the
\* point array when it is set, the cluster index or its position when idx is
\* unset, the member of the description otherwise. Reading more elements
\* than the engine's array has is a read past its end.
CopyArray(b, a, n) ==
    LET src == b.heap.views[a.group][a.src]
        data == [i \in 1..n |->
                   IF src # nullptr THEN ReadAt(b.heap, src, a.member, i)
                   ELSE IF a.meta = "cluster_idx" THEN i - 1
                   ELSE Indeterminate]
        past == IF src # nullptr /\ n > Capacity(src)
                THEN {"read past the end of an engine array"} ELSE {}
    IN  [heap |-> [b.heap EXCEPT !.blocks = Append(@, [state |-> "live", data |-> data]),
                                 !.faults = @ \cup past],
         rec  |-> [b.rec EXCEPT !.arr[a.meta] = EngineArrays + Len(b.heap.blocks) + 1]]

RECURSIVE FillFrom(_, _)
FillFrom(b, k) ==
    IF k > Len(Arrays) THEN b
    ELSE LET a == Arrays[k]
             n == GroupCount(b.heap.views, a.group)
         IN  FillFrom(IF n > 0 THEN CopyArray(b, a, n) ELSE b, k + 1)

\* gst_buffer_add_radar_process_meta on a new buffer: the record, with the
\* three counts and the arrays of every group that has elements
gst_buffer_add_radar_process_meta(h, frame_id) ==
    FillFrom([heap |-> h,
              rec  |-> [gst_radar_process_meta_init EXCEPT
                          !.frame_id = frame_id,
                          !.point_clouds_len = GroupCount(h.views, "points"),
                          !.num_clusters = GroupCount(h.views, "clusters"),
                          !.num_tracked_objects = GroupCount(h.views, "tracks")]], 1)

\* g_free: nothing for a null pointer, the block is released otherwise;
\* freeing a released block or an array of the engine is a fault
g_free(h, ptr) ==
    IF ptr = nullptr THEN h
    ELSE IF ptr \in 1..EngineArrays
    THEN [h EXCEPT !.faults = @ \cup {"g_free of an array the engine owns"}]
    ELSE IF h.blocks[ptr - EngineArrays].state = "freed"
    THEN [h EXCEPT !.faults = @ \cup {"g_free of a block already freed"}]
    ELSE [h EXCEPT !.blocks[ptr - EngineArrays].state = "freed"]

RECURSIVE FreeFrom(_, _, _)
FreeFrom(h, rec, k) ==
    IF k > Len(Arrays) THEN h
    ELSE FreeFrom(g_free(h, rec.arr[Arrays[k].meta]), rec, k + 1)

\* gst_radar_process_meta_free: g_free of each of the fifteen arrays
gst_radar_process_meta_free(h, rec) == FreeFrom(h, rec, 1)

\* a transform that hands the record, pointers and all, to the copy
CopyRecordPointers(rec) == [copied |-> TRUE, rec |-> rec]

\* gst_radar_process_meta_transform: returns FALSE, the copy of a frame gets
\* no record
gst_radar_process_meta_transform(rec) == [copied |-> FALSE, rec |-> rec]

RECURSIVE TransformFrom(_, _)
TransformFrom(records, k) ==
    IF k > Len(records) THEN <<>>
    ELSE LET t == gst_radar_process_meta_transform(records[k].rec)
         IN  (IF t.copied THEN <<[records[k] EXCEPT !.rec = t.rec]>> ELSE <<>>)
             \o TransformFrom(records, k + 1)

RECURSIVE FreeRecordsFrom(_, _, _)
FreeRecordsFrom(h, records, k) ==
    IF k > Len(records) THEN h
    ELSE FreeRecordsFrom(gst_radar_process_meta_free(h, records[k].rec), records, k + 1)

\* no frame is being reordered
NoCube == [CubeOf([trn |-> 0, num_chirps |-> 0, adc_samples |-> 0])
              EXCEPT !.ended = "done"]

\* no window is followed by dc_removal
NoWindow == [data |-> <<>>, out |-> <<>>, done |-> TRUE]

\* the clock reads one second when the pipeline is built
ClockInit == [now |-> GST_SECOND, passes |-> 0]

HistInit == [completed |-> 0, records |-> <<>>, aborted_at |-> -1]

Init ==
    /\ filter = FilterInit
    /\ world \in {[WorldInit EXCEPT !.exports = e] : e \in Libraries}
    /\ last = LastInit
    /\ hist = HistInit
    /\ throttle = ThrottleInit
    /\ clock = ClockInit
    /\ cube = NoCube
    /\ file = NoFile
    /\ window = NoWindow
    /\ heap = NoHeap

\* a handler's run: the fields, the world, the events so far, the return value
Machine(f, w) ==
    [f |-> f, w |-> w, log |-> <<>>, faults |-> {}, ret |-> "", size |-> Num(0),
     avg_time |-> NoAverage, meta |-> <<>>, lim |-> NoLimit, now |-> clock.now]

Emit(m, ev, arg) == [m EXCEPT !.log = Append(@, [ev |-> ev, arg |-> arg])]

Fault(m, name) == [m EXCEPT !.faults = @ \cup {name}]

Return(m, value) == [m EXCEPT !.ret = value]

Crash(m, name) == [Fault(m, name) EXCEPT !.w.crashed = TRUE, !.ret = "crash"]

-----------------------------------------------------------------------------
(* The dynamic loader, the heap and the engine, as the element uses them *)

\* filter->libradar_handle = dlopen(libradar_name, RTLD_LAZY)
dl_open(m, found) ==
    IF found
    THEN [Emit(m, "dlopen", PTR) EXCEPT !.f.libradar_handle = PTR, !.w.libRefs = @ + 1]
    ELSE [Emit(m, "dlopen", NULL) EXCEPT !.f.libradar_handle = NULL]

\* dlclose(filter->libradar_handle); filter->libradar_handle = nullptr
dl_close(m) ==
    LET c == Emit(m, "dlclose", m.f.libradar_handle)
        d == IF m.w.libRefs = 0
             THEN Fault(c, "dlclose of an unloaded module")
             ELSE [c EXCEPT !.w.libRefs = @ - 1]
    IN  [d EXCEPT !.f.libradar_handle = NULL]

\* filter-><sym>_fn = dlsym(filter->libradar_handle, "<sym>")
dl_sym(m, sym) ==
    LET p == IF sym \in m.w.exports THEN PTR ELSE NULL
    IN  [Emit(m, "dlsym", sym) EXCEPT !.f.fn[sym] = p]

\* posix_memalign(&filter->radar_buffer, 64, filter->radar_buffer_size)
posix_memalign(m, ok) ==
    IF ok
    THEN [Emit(m, "posix_memalign", PTR) EXCEPT !.f.radar_buffer = PTR, !.w.scratch = "held"]
    ELSE Emit(m, "posix_memalign", NULL)

\* free(filter->radar_buffer)
FreeScratch(m) ==
    LET c == Emit(m, "free", m.f.radar_buffer)
        d == IF m.w.scratch # "held"
             THEN Fault(c, "free of a block that is not allocated")
             ELSE [c EXCEPT !.w.scratch = "freed"]
    IN  IF m.w.engine = "live"
        THEN Fault(d, "scratch freed while the engine handle is live")
        ELSE d

\* A call through one of the six function pointers.  A null pointer ends the
\* process; a pointer into a module that is no longer loaded, or a stage or
\* destroy call without a live handle, is undefined: the process ends or the
\* call runs, as `ub` says.
CallFaults(m, sym) ==
    (IF m.w.libRefs = 0 THEN {"call into an unloaded module"} ELSE {})
    \cup
    (IF /\ sym \notin {"radarGetMemSize", "radarInitHandle"}
        /\ (m.f.radar_handle = NULL \/ m.w.engine # "live")
     THEN {"engine call without a live handle"} ELSE {})

EngineCall(m, sym, code, ub) ==
    IF m.f.fn[sym] = NULL
    THEN Crash(m, "call through a null function pointer")
    ELSE IF CallFaults(m, sym) = {}
    THEN Emit(m, sym, code)
    ELSE IF ub = "crash"
    THEN [Crash(m, "crash in an undefined call") EXCEPT !.faults = @ \cup CallFaults(m, sym)]
    ELSE [Emit(m, sym, code) EXCEPT !.faults = @ \cup CallFaults(m, sym)]

-----------------------------------------------------------------------------
(* gst_radar_process_start *)

\* lines 180-252: the dimensions, the derived channel count, the engine's
\* parameter blocks; radar_handle and the tracking buffer are reset
LoadRadarConfig(m, config) ==
    [m EXCEPT !.f.num_rx = Wrap(Num(config.num_rx), GUINT_BYTES),
              !.f.num_tx = Wrap(Num(config.num_tx), GUINT_BYTES),
              !.f.num_chirps = Wrap(Num(config.num_chirps), GUINT_BYTES),
              !.f.adc_samples = Wrap(Num(config.adc_samples), GUINT_BYTES),
              !.f.trn = GuintMul(Wrap(Num(config.num_rx), GUINT_BYTES),
                                 Wrap(Num(config.num_tx), GUINT_BYTES)),
              !.f.radar_handle = NULL,
              !.f.tracking_desc_buf = maxTrackingLen]

\* a start that forgets the dimensions before it knows the file can be loaded
ConfigureFromZero(m, load, config) ==
    IF m.f.radar_config = NULL
    THEN Return(Emit(m, "GST_ERROR", "No radar config file specified"), "FALSE") ELSE
    IF ~load
    THEN Return([Emit(m, "GST_ERROR", "Failed to load radar config")
                   EXCEPT !.f.num_rx = Num(0), !.f.num_tx = Num(0),
                          !.f.num_chirps = Num(0), !.f.adc_samples = Num(0),
                          !.f.trn = Num(0)], "FALSE") ELSE
    LoadRadarConfig(m, config)

\* lines 167-255: no path (line 168) or a failed load (line 176) is reported
\* and ends the start before any field is written
Configure(m, load, config) ==
    IF m.f.radar_config = NULL
    THEN Return(Emit(m, "GST_ERROR", "No radar config file specified"), "FALSE") ELSE
    IF ~load
    THEN Return(Emit(m, "GST_ERROR", "Failed to load radar config"), "FALSE") ELSE
    LoadRadarConfig(m, config)

\* size_t total_samples = filter->trn * filter->num_chirps * filter->adc_samples
total_samples(f) == GuintMul(GuintMul(f.trn, f.num_chirps), f.adc_samples)

\* lines 257-265; a resize that throws is caught at line 380
AllocateBuffers(m, bad_alloc) ==
    IF bad_alloc THEN Return(m, "FALSE") ELSE
    LET total == total_samples(m.f)
    IN  [m EXCEPT !.f.input_data = total,
                  !.f.output_data = total,
                  !.f.radar_buffer_size = 0]

\* the failure branch of each dlsym: dlclose, null the module pointer, FALSE
UnbindOnMissingSymbol(m) == Return(dl_close(m), "FALSE")

\* lines 285-337: the six dlsym calls in order; the first missing symbol ends
\* the start
RECURSIVE LoadSymbols(_, _)
LoadSymbols(m, i) ==
    IF i > Len(Symbols)
    THEN m
    ELSE LET b == dl_sym(m, Symbols[i])
         IN  IF b.f.fn[Symbols[i]] = NULL
             THEN UnbindOnMissingSymbol(b)
             ELSE LoadSymbols(b, i + 1)

\* lines 341-345: ret = radarGetMemSize_fn(&radar_param, &radar_buffer_size)
QueryMemSize(m, env) ==
    [EngineCall(m, "radarGetMemSize", env.memsize_ret, "crash")
        EXCEPT !.f.radar_buffer_size = env.memsize]

\* lines 365-366: radarInitHandle_fn(&radar_handle, ...); the engine stores a
\* handle only when it reports success
InitHandle(m, env) ==
    LET c == EngineCall(m, "radarInitHandle", env.init_ret, "crash")
    IN  IF env.init_ret = R_SUCCESS
        THEN [c EXCEPT !.f.radar_handle = PTR, !.w.engine = "live"]
        ELSE c

\* a failed init that lets the start report success
IgnoreInitFailure(m) ==
    Return([FreeScratch(m) EXCEPT !.f.radar_buffer = NULL], "TRUE")

\* a failure branch that frees the buffer and keeps the pointer
ReleaseOnInitFailureKeepPointer(m) == Return(FreeScratch(m), "FALSE")

\* lines 367-376, the failure branch of radarInitHandle: free the buffer,
\* null it, FALSE
ReleaseOnInitFailure(m) ==
    Return([FreeScratch(m) EXCEPT !.f.radar_buffer = NULL], "FALSE")

\* a failed size query that lets the start report success
IgnoreMemSizeFailure(m) == Return(m, "TRUE")

\* lines 341-345, the failure branch of radarGetMemSize
FailOnMemSize(m) == Return(m, "FALSE")

\* lines 357-361, the failure branch of posix_memalign
FailOnMemalign(m) == Return([m EXCEPT !.f.radar_buffer = NULL], "FALSE")

\* lines 274-281, the failure branch of dlopen
FailOnDlopen(m) == Return(m, "FALSE")

\* lines 264-387, after the buffers are allocated
BindAndInit(m, env) ==
    LET o == dl_open(m, env.dlopen)
    IN  IF o.f.libradar_handle = NULL THEN FailOnDlopen(o) ELSE
    LET b == LoadSymbols(o, 1)
    IN  IF b.ret = "FALSE" THEN b ELSE
    LET q == QueryMemSize(b, env)
    IN  IF env.memsize_ret # R_SUCCESS \/ q.f.radar_buffer_size = 0
        THEN FailOnMemSize(q) ELSE
    LET a == posix_memalign(q, env.memalign)
    IN  IF ~env.memalign THEN FailOnMemalign(a) ELSE
    LET h == InitHandle(a, env)
    IN  IF env.init_ret # R_SUCCESS THEN ReleaseOnInitFailure(h) ELSE
        Return([h EXCEPT !.f.last_frame_time = GST_CLOCK_TIME_NONE], "TRUE")

\* What the loader, the allocator and the engine do during one start: whether
\* dlopen finds libradar, the status and the size radarGetMemSize gives,
\* whether posix_memalign succeeds and the status of radarInitHandle.
BindOk ==
    [ dlopen |-> TRUE, memsize_ret |-> R_SUCCESS,
      memsize |-> 4096, memalign |-> TRUE, init_ret |-> R_SUCCESS ]

\* One environment per way the binding can end: every step succeeding, or the
\* steps before one succeeding and that one failing.
BindInputs ==
    {BindOk, [BindOk EXCEPT !.dlopen = FALSE], [BindOk EXCEPT !.memsize = 0],
     [BindOk EXCEPT !.memalign = FALSE]}
    \cup {[BindOk EXCEPT !.memsize_ret = e] : e \in RadarErrorCode \ {R_SUCCESS}}
    \cup {[BindOk EXCEPT !.init_ret = e] : e \in RadarErrorCode \ {R_SUCCESS}}

-----------------------------------------------------------------------------
(* gst_radar_process_stop *)

\* gdouble avg_time = total_processing_time / total_frames, kept as the
\* fraction it is the quotient of
Average(f) == [total |-> f.total_processing_time, frames |-> f.total_frames]

\* a stop that prints its statistics whether or not a frame was processed
PrintStatisticsUnguarded(m) ==
    [Emit(m, "statistics", "printed") EXCEPT !.avg_time = Average(m.f)]

\* lines 395-403: the statistics are printed only when frames were processed
PrintStatistics(m) ==
    IF m.f.total_frames > 0
    THEN [Emit(m, "statistics", "printed") EXCEPT !.avg_time = Average(m.f)]
    ELSE m

\* a handle kept when the engine reports a failure to destroy it
DestroyHandleUnlessFailed(m, destroy_ret) ==
    IF m.f.radar_handle # NULL /\ m.f.fn["radarDestroyHandle"] # NULL
    THEN LET c == EngineCall(m, "radarDestroyHandle", destroy_ret, "run")
         IN  IF destroy_ret # R_SUCCESS THEN c
             ELSE [c EXCEPT !.f.radar_handle = NULL,
                            !.w.engine = IF m.w.engine = "live" THEN "destroyed" ELSE @]
    ELSE m

\* lines 405-414
DestroyHandle(m, destroy_ret) ==
    IF m.f.radar_handle # NULL /\ m.f.fn["radarDestroyHandle"] # NULL
    THEN \* the handle is gone whatever status the engine reports
         LET c == EngineCall(m, "radarDestroyHandle", destroy_ret, "run")
         IN  [c EXCEPT !.f.radar_handle = NULL,
                       !.w.engine = IF m.w.engine = "live" THEN "destroyed" ELSE @]
    ELSE m

\* lines 416-421
CloseLibrary(m) == IF m.f.libradar_handle # NULL THEN dl_close(m) ELSE m

\* the block is freed and its pointer kept
FreeRadarBufferKeepPointer(m) ==
    LET r == IF m.f.radar_buffer # NULL THEN FreeScratch(m) ELSE m
    IN  [r EXCEPT !.f.radar_buffer_size = 0]

\* lines 423-432
FreeRadarBuffer(m) ==
    LET r == IF m.f.radar_buffer # NULL
             THEN [FreeScratch(m) EXCEPT !.f.radar_buffer = NULL]
             ELSE m
    IN  [r EXCEPT !.f.radar_buffer_size = 0]

\* a clearing that also starts the frame statistics afresh
ClearBuffersAndStatistics(m) ==
    [m EXCEPT !.f.input_data = Num(0), !.f.output_data = Num(0),
              !.f.tracking_desc_buf = 0,
              !.f.last_frame_time = GST_CLOCK_TIME_NONE,
              !.f.total_frames = 0, !.f.total_processing_time = 0]

\* lines 434-437
ClearBuffers(m) ==
    [m EXCEPT !.f.input_data = Num(0), !.f.output_data = Num(0),
              !.f.tracking_desc_buf = 0,
              !.f.last_frame_time = GST_CLOCK_TIME_NONE]

\* a stop that unbinds the module before it destroys the handle
StopUnbindsFirst(f, w, destroy_ret) ==
    Return(ClearBuffers(FreeRadarBuffer(DestroyHandle(CloseLibrary(
        PrintStatistics(Machine(f, w))), destroy_ret))), "TRUE")

gst_radar_process_stop(f, w, destroy_ret) ==
    Return(ClearBuffers(FreeRadarBuffer(CloseLibrary(DestroyHandle(
        PrintStatistics(Machine(f, w)), destroy_ret)))), "TRUE")

-----------------------------------------------------------------------------
(* gst_radar_process_finalize *)

gst_radar_process_finalize(f, w) ==
    LET m == Machine(f, w)
        c == [m EXCEPT !.f.input_data = Num(0), !.f.output_data = Num(0)]
        b == IF c.f.radar_buffer # NULL
             THEN [FreeScratch(c) EXCEPT !.f.radar_buffer = NULL]
             ELSE c
    IN  IF b.f.libradar_handle # NULL THEN dl_close(b) ELSE b

-----------------------------------------------------------------------------
(* gst_radar_process_transform_ip *)

\* size_t expected_size = filter->trn * filter->num_chirps *
\*                        filter->adc_samples * sizeof(std::complex<float>)
expected_size(f) ==
    SizeMul(GuintMul(GuintMul(f.trn, f.num_chirps), f.adc_samples),
            Num(SIZEOF_COMPLEX_FLOAT))

\* What the clock does during one frame: whether the element has one and
\* who else holds it, the time since the latest reading, the time between
\* the end of a sleep and the reading that follows, and how a read through
\* a freed clock or a conversion out of range ends.
NoClock ==
    [clock |-> "none", gap |-> Zero, lag |-> Zero, ub |-> "intact",
     garbage |-> Zero]

\* frames arrive 20 ms or 150 ms after the latest reading
Gaps == {Time(20000, 0), Time(150000, 0)}

\* a reading after a sleep comes 3.5 us after the sleep ends
Lags == {Time(3, 500)}

ClockInputs ==
    {NoClock}
    \cup {[NoClock EXCEPT !.clock = "held", !.gap = g, !.lag = l] :
             g \in Gaps, l \in Lags}
    \cup {[NoClock EXCEPT !.clock = "released", !.gap = g, !.ub = u] :
             g \in Gaps, u \in {"intact", "crash"}}
    \cup {[NoClock EXCEPT !.clock = "released", !.gap = g, !.ub = "garbage",
                          !.garbage = x] :
             g \in Gaps, x \in {Zero, GST_CLOCK_TIME_NONE}}

\* line 494: filter->last_frame_time = gst_clock_get_time(clock), after the
\* gst_object_unref(clock) of line 485.  When that reference was the last,
\* the clock is freed and the read is undefined: it ends the process, gives
\* any value, or finds the memory as it was.
StoreTimeAfterUnref(m, ck, after) ==
    LET r == IF ck.clock = "released"
             THEN Fault(m, "clock read after its last unref") ELSE m
        t == IF ck.clock = "released" /\ ck.ub = "garbage" THEN ck.garbage
             ELSE after
    IN  IF ck.clock = "released" /\ ck.ub = "crash"
        THEN Crash(r, "crash in an undefined read")
        ELSE [r EXCEPT !.f.last_frame_time = t, !.lim.stored = t]

\* lines 487, 489
Sleeps(f, elapsed) ==
    /\ f.last_frame_time # GST_CLOCK_TIME_NONE
    /\ TimeLess(elapsed, f.frame_duration)

\* lines 480-496
RateControl(m, ck) ==
    IF m.f.frame_duration = GST_CLOCK_TIME_NONE THEN m ELSE
    IF ck.clock = "none" THEN [m EXCEPT !.lim.clock = "none"] ELSE
    LET current_time == TimeAdd(m.now, ck.gap)
        elapsed == TimeSub(current_time, m.f.last_frame_time)
        sleeps == Sleeps(m.f, elapsed)
        sleep_time == TimeSub(m.f.frame_duration, elapsed)
        \* g_usleep(GST_TIME_AS_USECONDS(sleep_time))
        wait == IF sleeps THEN Time(GST_TIME_AS_USECONDS(sleep_time), 0)
                ELSE Zero
        after == TimeAdd(TimeAdd(current_time, wait), ck.lag)
        r == [m EXCEPT !.lim = [clock |-> ck.clock, arrival |-> current_time,
                                slept |-> sleeps, wait |-> wait,
                                stored |-> GST_CLOCK_TIME_NONE],
                       !.now = after]
    IN  StoreTimeAfterUnref(r, ck, after)

\* the buffer the host delivers, of `size` bytes
Deliver(m, size) == [m EXCEPT !.size = size]

\* a size check that lets a buffer one byte short through
MapAndCheckSizeOffByOne(m, map, size) ==
    IF ~map THEN Return(Deliver(m, size), GST_FLOW_ERROR) ELSE
    IF size # expected_size(m.f) /\ size # NumPred(expected_size(m.f))
    THEN Return(Emit(Deliver(m, size), "gst_buffer_unmap", "size mismatch"),
                GST_FLOW_ERROR)
    ELSE Emit(Deliver(m, size), "gst_buffer_map", "accepted")

\* lines 498-510: map the buffer and compare its size with expected_size
MapAndCheckSize(m, map, size) ==
    IF ~map THEN Return(Deliver(m, size), GST_FLOW_ERROR) ELSE
    IF size # expected_size(m.f)
    THEN Return(Emit(Deliver(m, size), "gst_buffer_unmap", "size mismatch"),
                GST_FLOW_ERROR)
    ELSE Emit(Deliver(m, size), "gst_buffer_map", "accepted")

\* lines 512-545: the copy into input_data and the reorder loops.  The loops
\* index input_data and output_data up to trn * num_chirps * adc_samples; with
\* vectors of another size (cleared by stop, or sized by a wrapped product)
\* the accesses leave the vectors.
LoopsRun(f) == f.num_chirps # Num(0) /\ f.trn # Num(0) /\ f.adc_samples # Num(0)

StagingInBounds(f) ==
    \/ ~LoopsRun(f)
    \/ /\ f.input_data = NumMul(NumMul(f.trn, f.num_chirps), f.adc_samples)
       /\ f.output_data = f.input_data

Preprocess(m, ub) ==
    IF StagingInBounds(m.f)
    THEN Emit(m, "preprocess", "in bounds")
    ELSE IF ub = "crash"
    THEN Crash(m, "staging buffer accessed out of bounds")
    ELSE Fault(Emit(m, "preprocess", "out of bounds"),
               "staging buffer accessed out of bounds")

\* an error return that first writes output_data over the frame
AbortFrameAfterCopyBack(m) ==
    Return(Emit(Emit(m, "copy_back", "output_data"), "gst_buffer_unmap", "aborted"),
           GST_FLOW_ERROR)

\* an error return that counts the frame as processed
AbortFrameCounted(m) ==
    Return([Emit(m, "gst_buffer_unmap", "aborted") EXCEPT !.f.total_frames = @ + 1],
           GST_FLOW_ERROR)

\* the error return of an engine stage: unmap, GST_FLOW_ERROR
AbortFrame(m) == Return(Emit(m, "gst_buffer_unmap", "aborted"), GST_FLOW_ERROR)

\* a test that takes only the second error code for a failure
FailedOnSecondCode(ret) == ret = "R_ERROR_2"

\* if (ret != R_SUCCESS), lines 552, 561 and 570
Failed(ret) == ret # R_SUCCESS

\* the record is attached before the samples are copied back
AttachThenCopyBack(m, attach) ==
    LET c == IF attach
             THEN [Emit(m, "add_meta", "attached") EXCEPT !.meta = <<m.f.frame_id>>]
             ELSE Emit(m, "add_meta", "failed")
    IN  Emit(Emit(c, "copy_back", "output_data"), "gst_buffer_unmap", "done")

\* lines 577-589: copy back, unmap, gst_buffer_add_radar_process_meta with
\* the current frame_id
CopyBackAndAttach(m, attach) ==
    LET c == Emit(Emit(m, "copy_back", "output_data"), "gst_buffer_unmap", "done")
    IN  IF attach
        THEN [Emit(c, "add_meta", "attached") EXCEPT !.meta = <<m.f.frame_id>>]
        ELSE Emit(c, "add_meta", "failed")

\* an update that leaves the frame identifier as it is
UpdateStatisticsSameId(m, frame_time) ==
    [m EXCEPT !.f.total_processing_time = @ + frame_time,
              !.f.total_frames = @ + 1]

\* lines 591-602
UpdateStatistics(m, frame_time) ==
    [m EXCEPT !.f.total_processing_time = @ + frame_time,
              !.f.total_frames = @ + 1,
              !.f.frame_id = @ + 1]

\* g_new, called by gst_buffer_add_radar_process_meta for each array of the
\* record (g3d_radarprocess_meta.c lines 121-124, 142-147, 165-169), ends the
\* process when the memory cannot be had
AbortInGNew(m) == [Crash(m, "g_new could not allocate") EXCEPT !.meta = <<>>]

\* lines 547-575, then 577-604
RunStages(m, in) ==
    LET d == EngineCall(m, "radarDetection", in.ret[1], in.ub)
    IN  IF d.w.crashed THEN d ELSE
        IF Failed(in.ret[1]) THEN AbortFrame(d) ELSE
    LET c == EngineCall(d, "radarClustering", in.ret[2], in.ub)
    IN  IF c.w.crashed THEN c ELSE
        IF Failed(in.ret[2]) THEN AbortFrame(c) ELSE
    LET t == EngineCall(c, "radarTracking", in.ret[3], in.ub)
    IN  IF t.w.crashed THEN t ELSE
        IF Failed(in.ret[3]) THEN AbortFrame(t) ELSE
    LET a == CopyBackAndAttach(t, in.attach)
    IN  IF in.attach /\ ~in.alloc THEN AbortInGNew(a) ELSE
        Return(UpdateStatistics(a, in.frame_time), GST_FLOW_OK)

\* rx x tx x chirps x samples x 8 as a product of integers, nothing wrapped
ProductSize(f) ==
    NumMul(NumMul(NumMul(NumMul(f.num_rx, f.num_tx), f.num_chirps), f.adc_samples),
           Num(SIZEOF_COMPLEX_FLOAT))

\* The buffers of the model: of the product size, one byte less, empty, and
\* of the size the element computes.
FrameSizes(f) ==
    {ProductSize(f), Num(0), expected_size(f)}
    \cup (IF ProductSize(f) # Num(0) THEN {NumPred(ProductSize(f))} ELSE {})

\* What happens while an accepted frame is processed: the statuses the three
\* stages return (every stage after the first failing one reports success),
\* whether the metadata can be attached and the memory for its arrays had, the
\* measured frame time, and how an undefined call or access ends.
FrameOk ==
    [ret |-> <<R_SUCCESS, R_SUCCESS, R_SUCCESS>>, attach |-> TRUE, alloc |-> TRUE,
     frame_time |-> 1, ub |-> "run"]

FrameInputs ==
    {[FrameOk EXCEPT !.attach = a, !.frame_time = t] : a \in BOOLEAN, t \in {1, 2}}
    \cup {[FrameOk EXCEPT !.ret[i] = e] : i \in 1..3, e \in RadarErrorCode \ {R_SUCCESS}}
    \cup {[FrameOk EXCEPT !.ub = "crash"], [FrameOk EXCEPT !.alloc = FALSE]}

\* the three stages were called, in order, and each returned the success code
StagesCompleted(log) ==
    \E i, j, k \in 1..Len(log) :
        /\ i < j /\ j < k
        /\ log[i] = [ev |-> "radarDetection", arg |-> R_SUCCESS]
        /\ log[j] = [ev |-> "radarClustering", arg |-> R_SUCCESS]
        /\ log[k] = [ev |-> "radarTracking", arg |-> R_SUCCESS]

\* one of the three stages was called and returned another code
StageFailed(log) ==
    \E i \in 1..Len(log) :
        /\ log[i].ev \in {"radarDetection", "radarClustering", "radarTracking"}
        /\ log[i].arg # R_SUCCESS

-----------------------------------------------------------------------------
(* dc_removal (lines 451-472) *)

Complex(re, im) == [re |-> re, im |-> im]

\* lines 460-463: the sum of the first i parts, accumulated in a float
RECURSIVE SumTo(_, _, _)
SumTo(data, part, i) ==
    IF i = 0 THEN FZero ELSE FAdd(SumTo(data, part, i - 1), data[i][part])

dc_removal(data, count) ==
    IF count = 0 THEN data ELSE
    LET real_sum == SumTo(data, "re", count)
        imag_sum == SumTo(data, "im", count)
        real_avg == FDivCount(real_sum, count)
        imag_avg == FDivCount(imag_sum, count)
    IN  [i \in 1..Len(data) |->
            IF i <= count
            THEN Complex(FSub(data[i].re, real_avg), FSub(data[i].im, imag_avg))
            ELSE data[i]]

\* The samples of the model: real parts 0, 1, -2, 2^24 and the largest
\* finite float, imaginary parts 0 and 3.
Samples ==
    {Complex(re, im) :
        re \in {FZero, Fin(1, Pow2(23), -23), Fin(-1, Pow2(23), -22),
                Fin(1, Pow2(23), 1), FLT_MAX},
        im \in {FZero, Fin(1, 3 * Pow2(22), -22)}}

\* the windows of up to MaxCount samples
Windows == UNION {[1..n -> Samples] : n \in 0..MaxCount}

\* line 533: dc_removal(temp_samples, filter->adc_samples) on one window
DcRemoval ==
    /\ ~window.done
    /\ window' = [window EXCEPT !.out = dc_removal(window.data, Len(window.data)),
                                !.done = TRUE]
    /\ UNCHANGED <<filter, world, last, hist, throttle, clock, cube, file, heap>>

InitDc ==
    /\ filter = FilterInit
    /\ world = WorldInit
    /\ last = LastInit
    /\ hist = HistInit
    /\ throttle = ThrottleInit
    /\ clock = ClockInit
    /\ cube = NoCube
    /\ file = NoFile
    /\ window \in {[data |-> d, out |-> d, done |-> FALSE] : d \in Windows}
    /\ heap = NoHeap

NextDc == DcRemoval

SpecDc == InitDc /\ [][NextDc]_vars

\* ------------------------------------------------------------------------
\* Records on frames: a frame gets its record, is copied, is released, and
\* the engine goes on to the next frame or is destroyed
\* ------------------------------------------------------------------------

\* transform_ip for one frame, as the heap sees it: the three engine calls
\* leave the frame's results in the engine's arrays and the views, and
\* gst_buffer_add_radar_process_meta builds the record on the frame's buffer,
\* gst_buffer_add_meta having given it the record. A read past the end of an
\* engine array either ends the process or yields whatever lies there.
AttachRecord ==
    /\ ~heap.crashed
    /\ heap.engine_live
    /\ heap.gen < MaxRecords
    /\ \E views \in EngineResults, ub \in {"run", "crash"} :
         LET h == [heap EXCEPT !.gen = @ + 1, !.views = views]
             b == gst_buffer_add_radar_process_meta(h, heap.gen)
             frame == [live |-> TRUE,
                       records |-> <<[rec |-> b.rec, reported |-> views, gen |-> h.gen]>>]
         IN  heap' = IF b.heap.faults # h.faults /\ ub = "crash"
                     THEN [h EXCEPT !.faults = b.heap.faults, !.crashed = TRUE]
                     ELSE [b.heap EXCEPT !.bufs = Append(@, frame)]
    /\ UNCHANGED <<filter, world, last, hist, throttle, clock, cube, file, window>>

\* gst_buffer_copy of a frame: the copy carries the records whose transform
\* function gives it one
CopyFrame ==
    /\ ~heap.crashed
    /\ Len(heap.bufs) < MaxBuffers
    /\ \E b \in 1..Len(heap.bufs) :
         /\ heap.bufs[b].live
         /\ heap' = [heap EXCEPT !.bufs = Append(@,
                        [live |-> TRUE,
                         records |-> TransformFrom(heap.bufs[b].records, 1)])]
    /\ UNCHANGED <<filter, world, last, hist, throttle, clock, cube, file, window>>

\* the last reference to a frame goes: the free function of each of its
\* records runs
ReleaseFrame ==
    /\ ~heap.crashed
    /\ \E b \in 1..Len(heap.bufs) :
         /\ heap.bufs[b].live
         /\ heap' = [FreeRecordsFrom(heap, heap.bufs[b].records, 1)
                       EXCEPT !.bufs[b].live = FALSE]
    /\ UNCHANGED <<filter, world, last, hist, throttle, clock, cube, file, window>>

\* stop: radarDestroyHandle ends the engine and tracking_desc_buf is cleared;
\* what the views pointed at is gone
DestroyEngine ==
    /\ ~heap.crashed
    /\ heap.engine_live
    /\ heap' = [heap EXCEPT !.engine_live = FALSE]
    /\ UNCHANGED <<filter, world, last, hist, throttle, clock, cube, file, window>>

InitRecord ==
    /\ filter = FilterInit
    /\ world = WorldInit
    /\ last = LastInit
    /\ hist = HistInit
    /\ throttle = ThrottleInit
    /\ clock = ClockInit
    /\ cube = NoCube
    /\ file = NoFile
    /\ window = NoWindow
    /\ heap = NoHeap

NextRecord == AttachRecord \/ CopyFrame \/ ReleaseFrame \/ DestroyEngine

SpecRecord == InitRecord /\ [][NextRecord]_vars

-----------------------------------------------------------------------------
(* Actions: the calls the host makes on the element.  `last` keeps the most  *)
(* recent call of start, stop, transform_ip or finalize.                     *)

Alive == ~world.crashed /\ ~world.finalized

Record(op, m) ==
    [op |-> op, ret |-> m.ret, log |-> m.log, faults |-> m.faults,
     size |-> m.size, avg_time |-> m.avg_time, lim |-> m.lim]

\* gst_radar_process_set_property, PROP_RADAR_CONFIG: the application names
\* a configuration file
SetRadarConfig ==
    /\ Alive
    /\ \E path \in {"radar.json"} :
          filter' = [filter EXCEPT !.radar_config = path]
    /\ UNCHANGED <<world, last, hist, throttle, clock, cube, file, window, heap>>

StartReturns(m) ==
    /\ filter' = m.f
    /\ world' = [m.w EXCEPT !.started = (m.ret = "TRUE")]
    /\ last' = Record("start", m)
    /\ UNCHANGED <<hist, throttle, clock, cube, file, window, heap>>

\* gst_radar_process_start, with the configuration file, the allocator, the
\* loader and the engine behaving in one of the given ways.  The host starts
\* an element that is not started.
StartWith(loads, configs, allocs, envs) ==
    /\ Alive /\ ~world.started
    /\ world.libRefs < MaxLibRefs
    /\ \E load \in loads, config \in configs :
          LET c == Configure(Machine(filter, world), load, config)
          IN  IF c.ret = "FALSE" THEN StartReturns(c) ELSE
              \E bad_alloc \in allocs :
                 LET a == AllocateBuffers(c, bad_alloc)
                 IN  IF a.ret = "FALSE" THEN StartReturns(a) ELSE
                     \E env \in envs : StartReturns(BindAndInit(a, env))

Start == StartWith(BOOLEAN, ConfigFiles, BOOLEAN, BindInputs)

Stop ==
    /\ Alive
    /\ \E destroy_ret \in RadarErrorCode :
          LET m == gst_radar_process_stop(filter, world, destroy_ret)
          IN  /\ filter' = m.f
              /\ world' = [m.w EXCEPT !.started = FALSE]
              /\ last' = Record("stop", m)
    /\ hist' = [hist EXCEPT !.aborted_at = -1]
    /\ UNCHANGED <<throttle, clock, cube, file, window, heap>>

\* the frame read the clock
Passes(m) == IF m.lim.clock \in {"unread", "none"} THEN 0 ELSE 1

TransformIpReturns(m) ==
    /\ filter' = m.f
    /\ world' = m.w
    /\ last' = Record("transform_ip", m)
    /\ clock' = [now |-> m.now, passes |-> clock.passes + Passes(m)]
    /\ UNCHANGED <<throttle, cube, file, window, heap>>
    /\ hist' = [completed |-> hist.completed +
                                (IF StagesCompleted(m.log) /\ ~m.w.crashed THEN 1 ELSE 0),
                records |-> hist.records \o m.meta,
                aborted_at |-> IF StageFailed(m.log) THEN hist.completed
                               ELSE hist.aborted_at]

\* gst_radar_process_transform_ip, with the clock, the buffer and the engine
\* behaving in one of the given ways.  The base class delivers buffers only
\* between a start that returned TRUE and the next stop.
TransformIpWith(clocks, maps, frames) ==
    /\ Alive /\ world.started
    /\ filter.total_frames < MaxFrames
    /\ \E ck \in clocks :
          LET r == RateControl(Machine(filter, world), ck)
          IN  IF r.w.crashed THEN TransformIpReturns(r) ELSE
              \E map \in maps, size \in FrameSizes(filter) :
                 /\ (~map => size = expected_size(filter))
                 /\ LET c == MapAndCheckSize(r, map, size)
                    IN  IF c.ret # "" THEN TransformIpReturns(c) ELSE
                        \E in \in frames :
                           LET p == Preprocess(c, in.ub)
                           IN  IF p.w.crashed THEN TransformIpReturns(p)
                               ELSE TransformIpReturns(RunStages(p, in))

\* frames of an element whose frame-rate was left at its default
TransformIp == TransformIpWith({NoClock}, BOOLEAN, FrameInputs)

\* A buffer pushed to the sink pad while the element is not started.  The
\* element is a GstBaseTransform: its pads are active only between a start
\* that returned TRUE and the stop that follows, and the base class waits for
\* the streaming thread before it calls stop, so the buffer is turned away
\* and transform_ip is not called.
PushWhileInactive ==
    /\ Alive /\ ~world.started
    /\ last' = [LastInit EXCEPT !.op = "chain", !.ret = "GST_FLOW_FLUSHING"]
    /\ UNCHANGED <<filter, world, hist, throttle, clock, cube, file, window, heap>>

Finalize ==
    /\ Alive
    /\ LET m == gst_radar_process_finalize(filter, world)
       IN  /\ filter' = m.f
           /\ world' = [m.w EXCEPT !.finalized = TRUE, !.started = FALSE]
           /\ last' = Record("finalize", m)
    /\ hist' = [hist EXCEPT !.aborted_at = -1]
    /\ UNCHANGED <<throttle, clock, cube, file, window, heap>>

Next ==
    \/ SetRadarConfig \/ Start \/ Stop \/ TransformIp \/ Finalize
    \/ PushWhileInactive

Spec == Init /\ [][Next]_vars

-----------------------------------------------------------------------------
(* gvafpsthrottle: gst_gva_fps_throttle_set_property, _start, _transform_ip *)

\* lines 82-101
gst_gva_fps_throttle_set_property(t, w, rate) ==
    LET m == Machine([t EXCEPT !.target_fps = rate], w)
    IN  IF rate.num <= 0
        THEN [Emit(m, "GST_ELEMENT_ERROR", "Invalid target-fps value")
                 EXCEPT !.f.target_fps = Rate(0, 1), !.f.frame_duration = Zero]
        ELSE [m EXCEPT !.f.frame_duration = SecondsPer(rate)]

\* lines 122-130
gst_gva_fps_throttle_start(t, w) ==
    Return([Machine(t, w) EXCEPT !.f.last_buffer_time = GST_CLOCK_TIME_NONE], "TRUE")

\* GST_GET_MONOTONIC_TIME(): g_get_monotonic_time() * GST_USECOND, whole
\* microseconds
GST_GET_MONOTONIC_TIME(t) == Time(t.us, 0)

\* line 177, std::this_thread::sleep_for(std::chrono::nanoseconds(int(1000 *
\* us))): the time the thread is asked to sleep.  A product above INT_MAX is
\* out of the range of int and its conversion is undefined: the builds give
\* the smallest int (sleep_for returns at once on a negative duration) or
\* the largest.
SleepFor(us, ub) ==
    IF ~TimeLess(INT_MAX, Time(us, 0)) THEN Time(us, 0)
    ELSE IF ub = "INT_MAX" THEN INT_MAX ELSE Zero

\* lines 132-191, the branch built where _WIN32 is not defined
gst_gva_fps_throttle_transform_ip(t, w, ck) ==
    LET m == Machine(t, w)
    IN  IF t.target_fps.num <= 0 THEN Return(m, GST_FLOW_OK) ELSE
    LET current_time == GST_GET_MONOTONIC_TIME(TimeAdd(m.now, ck.gap))
        elapsed_time == TimeSub(current_time, t.last_buffer_time)
        sleeps == /\ GST_CLOCK_TIME_IS_VALID(t.last_buffer_time)
                  /\ TimeLess(elapsed_time, t.frame_duration)
        sleep_time == TimeSub(t.frame_duration, elapsed_time)
        wait == IF sleeps THEN SleepFor(GST_TIME_AS_USECONDS(sleep_time), ck.ub)
                ELSE Zero
        after == IF sleeps
                 THEN GST_GET_MONOTONIC_TIME(TimeAdd(TimeAdd(current_time, wait), ck.lag))
                 ELSE current_time
        r == IF sleeps /\ wait # Time(GST_TIME_AS_USECONDS(sleep_time), 0)
             THEN Fault(m, "conversion out of the range of int") ELSE m
    IN  Return([r EXCEPT !.f.last_buffer_time = after,
                         !.lim = [clock |-> ck.clock, arrival |-> current_time,
                                  slept |-> sleeps, wait |-> wait,
                                  stored |-> after],
                         !.now = after],
               GST_FLOW_OK)

\* what the monotonic clock and the conversion do during one frame
MonotonicInputs ==
    {[NoClock EXCEPT !.clock = "monotonic", !.gap = g, !.lag = l, !.ub = u] :
        g \in Gaps, l \in Lags, u \in {"INT_MIN", "INT_MAX"}}

-----------------------------------------------------------------------------
(* The rate limiters: runs of a pipeline that holds one of the two elements,  *)
(* with a complete libradar and a well-formed configuration file.             *)

IsRadar == world.element = "g3dradarprocess"

IsThrottle == world.element = "gvafpsthrottle"

\* lines 132-139, PROP_FRAME_RATE
gst_radar_process_set_property(f, w, rate) ==
    LET m == Machine([f EXCEPT !.frame_rate = rate], w)
    IN  IF rate.num > 0
        THEN [m EXCEPT !.f.frame_duration = SecondsPer(rate)]
        ELSE [m EXCEPT !.f.frame_duration = GST_CLOCK_TIME_NONE]

SetFrameRate ==
    /\ Alive /\ IsRadar
    /\ \E rate \in Rates :
          LET m == gst_radar_process_set_property(filter, world, rate)
          IN  /\ filter' = m.f
              /\ last' = Record("set_property", m)
    /\ UNCHANGED <<world, hist, throttle, clock, cube, file, window, heap>>

LimiterSetRadarConfig == IsRadar /\ SetRadarConfig

LimiterStart ==
    IsRadar /\ StartWith({TRUE}, {DefaultRadarConfig}, {FALSE}, {BindOk})

LimiterStop == IsRadar /\ Stop

LimiterTransformIp ==
    /\ IsRadar /\ clock.passes < MaxPasses
    /\ TransformIpWith(ClockInputs, {TRUE}, {FrameOk})

ThrottleSetProperty ==
    /\ Alive /\ IsThrottle
    /\ \E rate \in Rates :
          LET m == gst_gva_fps_throttle_set_property(throttle, world, rate)
          IN  /\ throttle' = m.f
              /\ last' = Record("set_property", m)
    /\ UNCHANGED <<filter, world, hist, clock, cube, file, window, heap>>

ThrottleStart ==
    /\ Alive /\ IsThrottle /\ ~world.started
    /\ LET m == gst_gva_fps_throttle_start(throttle, world)
       IN  /\ throttle' = m.f
           /\ world' = [m.w EXCEPT !.started = (m.ret = "TRUE")]
           /\ last' = Record("start", m)
    /\ UNCHANGED <<filter, hist, clock, cube, file, window, heap>>

\* the class has no stop handler: the base class only deactivates the pads
ThrottleStop ==
    /\ Alive /\ IsThrottle /\ world.started
    /\ world' = [world EXCEPT !.started = FALSE]
    /\ last' = [LastInit EXCEPT !.op = "stop", !.ret = "TRUE"]
    /\ UNCHANGED <<filter, hist, throttle, clock, cube, file, window, heap>>

ThrottleTransformIp ==
    /\ Alive /\ IsThrottle /\ world.started
    /\ clock.passes < MaxPasses
    /\ \E ck \in MonotonicInputs :
          LET m == gst_gva_fps_throttle_transform_ip(throttle, world, ck)
          IN  /\ throttle' = m.f
              /\ last' = Record("transform_ip", m)
              /\ clock' = [now |-> m.now, passes |-> clock.passes + Passes(m)]
    /\ UNCHANGED <<filter, world, hist, cube, file, window, heap>>

InitLimiter ==
    /\ filter = FilterInit
    /\ world \in {[WorldInit EXCEPT !.element = e] :
                     e \in {"g3dradarprocess", "gvafpsthrottle"}}
    /\ last = LastInit
    /\ hist = HistInit
    /\ throttle = ThrottleInit
    /\ clock = ClockInit
    /\ cube = NoCube
    /\ file = NoFile
    /\ window = NoWindow
    /\ heap = NoHeap

NextLimiter ==
    \/ LimiterSetRadarConfig \/ SetFrameRate \/ LimiterStart \/ LimiterStop
    \/ LimiterTransformIp
    \/ ThrottleSetProperty \/ ThrottleStart \/ ThrottleStop
    \/ ThrottleTransformIp

SpecLimiter == InitLimiter /\ [][NextLimiter]_vars

-----------------------------------------------------------------------------
(* Configuration loading: runs of an element whose radar_config names one    *)
(* of the files of the model, with a complete libradar.                      *)

ConfigSetRadarConfig == SetRadarConfig

\* gst_radar_process_start, lines 167-178 reading the file
ConfigStart ==
    /\ Alive /\ ~world.started
    /\ world.libRefs < MaxLibRefs
    /\ LET r == load_from_json(file.doc)
           c == Configure(Machine(filter, world), r.ok, r.config)
           m == IF c.ret = "FALSE" THEN c
                ELSE BindAndInit(AllocateBuffers(c, FALSE), BindOk)
       IN  /\ filter' = m.f
           /\ world' = [m.w EXCEPT !.started = (m.ret = "TRUE")]
           /\ last' = Record("start", m)
           /\ file' = IF filter.radar_config = NULL THEN file
                      ELSE [file EXCEPT !.read = TRUE, !.ok = r.ok,
                                        !.config = r.config]
    /\ UNCHANGED <<hist, throttle, clock, cube, window, heap>>

ConfigStop == Stop

InitConfig ==
    /\ filter = FilterInit
    /\ world = WorldInit
    /\ last = LastInit
    /\ hist = HistInit
    /\ throttle = ThrottleInit
    /\ clock = ClockInit
    /\ cube = NoCube
    /\ file \in {[NoFile EXCEPT !.doc = d] : d \in Documents}
    /\ window = NoWindow
    /\ heap = NoHeap

NextConfig == ConfigSetRadarConfig \/ ConfigStart \/ ConfigStop

SpecConfig == InitConfig /\ [][NextConfig]_vars

-----------------------------------------------------------------------------
(* The reorder loops of transform_ip (lines 519-541), one (chirp, channel)    *)
(* window at a time.  dc_removal (line 532) changes the values of a window,   *)
(* not their positions.                                                       *)

\* The dimensions start leaves in trn, num_chirps and adc_samples: every cube
\* of up to MaxDim channels, chirps and samples, the cube of 64 x 64 channels
\* and 4097 chirps of 256 samples, and one window of 257 samples.
ReorderConfigs ==
    {[trn |-> a, num_chirps |-> b, adc_samples |-> n] :
        a \in 1..MaxDim, b \in 1..MaxDim, n \in 1..MaxDim}
    \cup {[trn |-> 4096, num_chirps |-> 4097, adc_samples |-> 256],
          [trn |-> 1, num_chirps |-> 1, adc_samples |-> 257]}

\* input_data.size() and output_data.size(): lines 258-260
VectorSize(q) ==
    total_samples([trn |-> Num(q.trn), num_chirps |-> Num(q.num_chirps),
                   adc_samples |-> Num(q.adc_samples)])

\* line 528: c * trn * adc_samples + t * adc_samples + s, in guint
input_idx(q, s) ==
    GuintAdd(GuintAdd(GuintMul(GuintMul(Num(q.c), Num(q.trn)), Num(q.adc_samples)),
                      GuintMul(Num(q.t), Num(q.adc_samples))),
             Num(s))

\* line 537: t * num_chirps * adc_samples + c * adc_samples + s, in guint
output_idx(q, s) ==
    GuintAdd(GuintAdd(GuintMul(GuintMul(Num(q.t), Num(q.num_chirps)), Num(q.adc_samples)),
                      GuintMul(Num(q.c), Num(q.adc_samples))),
             Num(s))

\* the accesses of the window (c, t) that leave input_data, temp_samples or
\* output_data
WindowFaults(q) ==
    LET samples == 0..(q.adc_samples - 1)
    IN  (IF \E s \in samples : ~NumLess(input_idx(q, s), VectorSize(q))
         THEN {"input_data read past its end"} ELSE {})
        \cup
        (IF q.adc_samples > TEMP_SAMPLES
         THEN {"temp_samples accessed past its end"} ELSE {})
        \cup
        (IF \E s \in samples : ~NumLess(output_idx(q, s), VectorSize(q))
         THEN {"output_data written past its end"} ELSE {})

\* the stores of the window (c, t) into output_data, each with the position
\* of input_data its sample was read from (-1: from outside input_data)
WindowStores(q) ==
    {<<ToInt(output_idx(q, s)),
       IF NumLess(input_idx(q, s), VectorSize(q))
       THEN ToInt(input_idx(q, s)) ELSE -1>> :
        s \in {x \in 0..(q.adc_samples - 1) :
                  NumLess(output_idx(q, x), VectorSize(q))}}

\* for (c ...) for (t ...): the counters after the window (c, t)
NextWindow(q) ==
    IF q.t + 1 < q.trn THEN [q EXCEPT !.t = q.t + 1]
    ELSE [q EXCEPT !.c = q.c + 1, !.t = 0,
                   !.ended = IF q.c + 1 < q.num_chirps THEN "" ELSE "done"]

\* One pass of the body of the two outer loops.  An access outside an array
\* is undefined: the process ends, or the loops run on.
ReorderStep(q, ub) ==
    LET w == [q EXCEPT !.faults = @ \cup WindowFaults(q),
                       !.windows = @ + 1]
    IN  IF WindowFaults(q) # {} /\ ub = "crash"
        THEN [w EXCEPT !.ended = "crash"]
        ELSE [NextWindow(w) EXCEPT !.from = @ \cup WindowStores(q),
                                   !.stores = @ + Cardinality(WindowStores(q))]

ReorderWindow ==
    /\ cube.ended = "" /\ cube.windows < MaxWindows
    /\ \E ub \in {"run", "crash"} : cube' = ReorderStep(cube, ub)
    /\ UNCHANGED <<filter, world, last, hist, throttle, clock, file, window, heap>>

InitReorder ==
    /\ filter = FilterInit
    /\ world = WorldInit
    /\ last = LastInit
    /\ hist = HistInit
    /\ throttle = ThrottleInit
    /\ clock = ClockInit
    /\ cube \in {CubeOf(config) : config \in ReorderConfigs}
    /\ file = NoFile
    /\ window = NoWindow
    /\ heap = NoHeap

NextReorder == ReorderWindow

SpecReorder == InitReorder /\ [][NextReorder]_vars

-----------------------------------------------------------------------------
(* Reading the record of the last handler call *)

Has(log, ev, arg) == \E i \in 1..Len(log) : log[i] = [ev |-> ev, arg |-> arg]

IsEvent(log, i, ev) == log[i].ev = ev

RECURSIVE CountFrom(_, _, _)
CountFrom(log, i, ev) ==
    IF i > Len(log) THEN 0
    ELSE (IF IsEvent(log, i, ev) THEN 1 ELSE 0) + CountFrom(log, i + 1, ev)

\* how many times the handler made the call `ev`
Count(log, ev) == CountFrom(log, 1, ev)

StageOrder == <<"radarDetection", "radarClustering", "radarTracking">>

IsStageCall(e) == e.ev \in {"radarDetection", "radarClustering", "radarTracking"}

\* the calls of the three stages the handler made, in order
StageCalls(log) == SelectSeq(log, IsStageCall)

\* every field but the configuration path is as it was
SameButPath == filter' = [filter EXCEPT !.radar_config = filter'.radar_config]

-----------------------------------------------------------------------------
(* Frame identifier and statistics *)

FrameIdStep ==
    /\ hist'.completed \in {hist.completed, hist.completed + 1}
    /\ filter'.frame_id = filter.frame_id + (hist'.completed - hist.completed)
    /\ (last'.op = "transform_ip" /\ last'.ret = GST_FLOW_ERROR)
          => filter'.frame_id = filter.frame_id

RecordsIncreasing ==
    \A i, j \in 1..Len(hist.records) : i < j => hist.records[i] < hist.records[j]

\* C1: in every step of every run of start, frame, stop and finalize the frame
\* identifier grows by exactly 1 when the step is a frame whose detect, cluster
\* and track calls all returned success and is unchanged otherwise (a rejected
\* or aborted frame included), so it is never decremented or reused; and the
\* identifiers of the attached records are strictly increasing in the order
\* they were attached.
C1_FrameIdentifier == [][FrameIdStep /\ RecordsIncreasing']_vars

\* two frames completed, the second one just now, and their records carry the
\* identifiers 0 and 1
C1_TwoFramesNumbered ==
    /\ last.op = "transform_ip" /\ last.ret = GST_FLOW_OK
    /\ filter.frame_id = 2
    /\ hist.records = <<0, 1>>

\* C2: in every reachable state total_frames is the number of frames whose
\* three stages all returned success, whether or not their record could be
\* attached; and a stop prints the average exactly when total_frames > 0, as
\* the quotient of total_processing_time by total_frames.
C2_FramesProcessed ==
    /\ filter.total_frames = hist.completed
    /\ last.op = "stop" =>
          /\ Has(last.log, "statistics", "printed") <=> (filter.total_frames > 0)
          /\ (filter.total_frames > 0) => last.avg_time = Average(filter)
          /\ (filter.total_frames = 0) => last.avg_time = NoAverage

\* a stop after two completed frames of which one got no record: the average
\* printed is 3 ticks over 2 frames
C2_AverageAfterLostRecord ==
    /\ last.op = "stop"
    /\ hist.completed = 2 /\ Len(hist.records) = 1
    /\ last.avg_time = [total |-> 3, frames |-> 2]

-----------------------------------------------------------------------------
(* Size validation *)

SizeMismatchStep ==
    (last'.op = "transform_ip" /\ last'.size # expected_size(filter'))
       => /\ last'.ret = GST_FLOW_ERROR
          /\ last'.log = <<[ev |-> "gst_buffer_unmap", arg |-> "size mismatch"]>>
          /\ hist'.completed = hist.completed /\ hist'.records = hist.records
          /\ SameButPath
          /\ world' = world
          /\ world'.started /\ ~world'.crashed

\* C3: a frame whose size differs from the size the element expects is
\* rejected with GST_FLOW_ERROR after one unmap: no preprocessing and no engine
\* call is made, no record is attached, total_frames, total_processing_time,
\* frame_id and every other field are unchanged, and the element stays started
\* with its resources as they were, ready for the next frame.
C3_SizeMismatchRejected == [][SizeMismatchStep]_vars

\* a frame one byte short of the expected size was rejected after one frame
\* had been processed
C3_OneByteShort ==
    /\ last.op = "transform_ip" /\ last.ret = GST_FLOW_ERROR
    /\ expected_size(filter) # Num(0)
    /\ last.size = NumPred(expected_size(filter))
    /\ filter.total_frames = 1
    /\ world.started

\* C4: for every configuration the size the element accepts is the product
\* rx x tx x chirps x samples x 8 as a product of integers, without wrap of
\* the 32-bit intermediate, and every other size is rejected.
C4_AcceptsTheProduct ==
    (last.op = "transform_ip" /\ last.log # <<>>)
       => (Has(last.log, "gst_buffer_map", "accepted")
              <=> last.size = ProductSize(filter))

-----------------------------------------------------------------------------
(* Engine stages *)

AbortedFrameStep ==
    (last'.op = "transform_ip" /\ StageFailed(last'.log))
       => /\ last'.ret = GST_FLOW_ERROR
          /\ ~Has(last'.log, "add_meta", "attached")
          /\ hist'.records = hist.records
          /\ filter'.total_frames = filter.total_frames
          /\ SameButPath
          /\ world' = world
          /\ world'.started /\ ~world'.crashed

CompletedFrameStep ==
    (hist'.completed = hist.completed + 1)
       => /\ last'.op = "transform_ip" /\ last'.ret = GST_FLOW_OK
          /\ filter'.total_frames = filter.total_frames + 1
          /\ IF Has(last'.log, "add_meta", "attached")
             THEN hist'.records = Append(hist.records, filter.frame_id)
             ELSE hist'.records = hist.records

\* C5: a frame in which detect, cluster or track returns a non-success code
\* ends with GST_FLOW_ERROR, gets no record and changes neither total_frames
\* nor any other field or resource, and the element stays started; and every
\* frame whose three stages return success, whatever came before it, is
\* counted in total_frames and gets the record of its frame identifier when
\* the record can be attached.
C5_AbortOnlyThisFrame == [][AbortedFrameStep /\ CompletedFrameStep]_vars

\* a frame completed, the next one was aborted by a stage, and the one after
\* it completed and got its record
C5_CompletedAfterAbort ==
    /\ last.op = "transform_ip" /\ last.ret = GST_FLOW_OK
    /\ hist.aborted_at = 1
    /\ hist.completed = 2
    /\ hist.records = <<0, 1>>

\* C6: in every frame the stage calls are a prefix of detect, cluster, track,
\* each made at most once; a stage is called only when every stage before it
\* returned R_SUCCESS, and a last call that returned any other code ends the
\* frame with GST_FLOW_ERROR.
C6_StageOrder ==
    last.op = "transform_ip" =>
        LET calls == StageCalls(last.log)
        IN  /\ Len(calls) <= Len(StageOrder)
            /\ \A i \in 1..Len(calls) : calls[i].ev = StageOrder[i]
            /\ \A i \in 1..(Len(calls) - 1) : calls[i].arg = R_SUCCESS
            /\ (calls # <<>> /\ calls[Len(calls)].arg # R_SUCCESS)
                  => last.ret = GST_FLOW_ERROR

\* detect returned success, cluster the first error code, and track was not
\* called
C6_StoppedAfterCluster ==
    /\ last.op = "transform_ip"
    /\ StageCalls(last.log) = <<[ev |-> "radarDetection", arg |-> R_SUCCESS],
                                [ev |-> "radarClustering", arg |-> "R_ERROR_1"]>>

-----------------------------------------------------------------------------
(* Binding and release *)

\* the last start looked up a symbol the library does not export
MissingSymbol ==
    /\ last.op = "start"
    /\ \E s \in SymbolSet \ world.exports : Has(last.log, "dlsym", s)

\* C7: when one of the six entry points cannot be resolved, start returns
\* FALSE, the module is closed once and its pointer nulled, and none of the six
\* function pointers is left bound.
C7_AtomicBinding ==
    MissingSymbol =>
        /\ last.ret = "FALSE"
        /\ Count(last.log, "dlclose") = 1
        /\ filter.libradar_handle = NULL
        /\ \A s \in SymbolSet : filter.fn[s] = NULL

\* C8: a start that returns FALSE, whatever the step that failed, leaves the
\* module unloaded, no scratch block held and no engine handle live.
C8_FailedStartReleasesAll ==
    (last.op = "start" /\ last.ret = "FALSE")
       => /\ world.libRefs = 0
          /\ world.scratch # "held"
          /\ world.engine # "live"

StopAfterFailedStart ==
    (last.op = "start" /\ last.ret = "FALSE" /\ last'.op = "stop")
       => /\ last'.ret = "TRUE"
          /\ ~world'.crashed
          /\ last'.faults = {}
          /\ Count(last'.log, "dlclose") <= 1
          /\ Count(last'.log, "free") <= 1
          /\ Count(last'.log, "radarDestroyHandle") = 0

\* C9: a stop that follows a start that returned FALSE returns TRUE without a
\* crash: it closes the module at most once and only while it is loaded, frees
\* the scratch block at most once and only while it is allocated, and does not
\* call radarDestroyHandle.  (radarInitHandle is taken to store a handle only
\* when it returns R_SUCCESS.)
C9_StopAfterFailedStart == [][StopAfterFailedStart]_vars

\* a stop after a start against a library without radarDestroyHandle: the
\* five pointers resolved before it are still set
C9_StoppedWithStalePointers ==
    /\ last.op = "stop"
    /\ world.exports = SymbolSet \ {"radarDestroyHandle"}
    /\ filter.fn["radarTracking"] = PTR

\* C10: the scratch block is never freed while the engine handle built in it
\* is live, in start's init-failure branch, in stop and in finalize.
C10_ScratchOutlivesHandle ==
    /\ "scratch freed while the engine handle is live" \notin last.faults
    /\ ~(world.scratch = "freed" /\ world.engine = "live")

-----------------------------------------------------------------------------
(* Teardown *)

\* every call `a` of the log comes before every call `b`
Before(log, a, b) ==
    \A i, j \in 1..Len(log) : (log[i].ev = a /\ log[j].ev = b) => i < j

\* C11: a stop releases in the order destroy handle, unbind module, free
\* scratch block, and the destroy call is made only while the module is still
\* loaded.
C11_TeardownOrder ==
    last.op = "stop" =>
        /\ Before(last.log, "radarDestroyHandle", "dlclose")
        /\ Before(last.log, "dlclose", "free")
        /\ Before(last.log, "radarDestroyHandle", "free")
        /\ "call into an unloaded module" \notin last.faults

\* a stop that made all three releases
C11_FullTeardown ==
    /\ last.op = "stop"
    /\ Count(last.log, "radarDestroyHandle") = 1
    /\ Count(last.log, "dlclose") = 1
    /\ Count(last.log, "free") = 1

\* the calls of the log that release a resource
IsRelease(e) == e.ev \in {"radarDestroyHandle", "dlclose", "free"}

Releases(log) == SelectSeq(log, IsRelease)

\* the step is a call of stop (a property write changes the path alone and
\* leaves the record of the last call as it was)
StopStep == last'.op = "stop" /\ filter'.radar_config = filter.radar_config

GuardedRelease ==
    StopStep =>
        /\ last'.ret = "TRUE" /\ ~world'.crashed
        /\ Count(last'.log, "radarDestroyHandle") <= 1
        /\ Count(last'.log, "dlclose") <= 1
        /\ Count(last'.log, "free") <= 1
        /\ Count(last'.log, "radarDestroyHandle") = 1 => world.engine = "live"
        /\ Count(last'.log, "dlclose") = 1 => world.libRefs > 0
        /\ Count(last'.log, "free") = 1 => world.scratch = "held"

SecondStop ==
    (last.op = "stop" /\ StopStep) =>
        /\ Releases(last'.log) = <<>>
        /\ filter' = filter
        /\ world' = world

\* C12: stop may follow a start that failed partway or another stop: it
\* returns TRUE, releases each of handle, module and scratch block at most
\* once and only when the element holds it, and a stop that follows a stop
\* releases nothing and leaves every field and resource as it was.
C12_IdempotentTeardown == [][GuardedRelease /\ SecondStop]_vars

\* a stop that found nothing to release, after a run in which the handle was
\* destroyed and the block freed and frames had been processed
C12_NothingLeftToRelease ==
    /\ last.op = "stop"
    /\ Releases(last.log) = <<>>
    /\ Has(last.log, "statistics", "printed")
    /\ world.engine = "destroyed" /\ world.scratch = "freed"

-----------------------------------------------------------------------------
(* The started state *)

\* the dimensions are those of a configuration file
ConfigLoaded ==
    /\ filter.radar_config # NULL
    /\ \E config \in ConfigFiles :
          /\ filter.num_rx = Wrap(Num(config.num_rx), GUINT_BYTES)
          /\ filter.num_tx = Wrap(Num(config.num_tx), GUINT_BYTES)
          /\ filter.num_chirps = Wrap(Num(config.num_chirps), GUINT_BYTES)
          /\ filter.adc_samples = Wrap(Num(config.adc_samples), GUINT_BYTES)

\* the module is loaded and each of the six pointers is an entry point of it
BindingComplete ==
    /\ filter.libradar_handle = PTR /\ world.libRefs > 0
    /\ \A s \in SymbolSet : filter.fn[s] = PTR /\ s \in world.exports

\* the engine handle is live inside the scratch block the element holds
HandleLive ==
    /\ filter.radar_buffer_size > 0
    /\ filter.radar_buffer = PTR /\ world.scratch = "held"
    /\ filter.radar_handle = PTR /\ world.engine = "live"

\* C13: when start returns TRUE the configuration is loaded, the module is
\* loaded with its six entry points resolved, radarGetMemSize returned success
\* with a size that is not zero, the scratch block of that size is allocated
\* and radarInitHandle returned success, so an engine handle is live; the
\* element is then in the started state.
C13_StartedMeansBound ==
    (last.op = "start" /\ last.ret = "TRUE") =>
        /\ world.started
        /\ ConfigLoaded
        /\ BindingComplete
        /\ Has(last.log, "radarGetMemSize", R_SUCCESS)
        /\ Has(last.log, "posix_memalign", PTR)
        /\ Has(last.log, "radarInitHandle", R_SUCCESS)
        /\ HandleLive
        /\ last.faults = {}

\* a start that succeeded after an earlier start had failed with the module
\* left loaded
C13_StartedAfterFailedStart ==
    /\ last.op = "start" /\ last.ret = "TRUE"
    /\ world.libRefs = 2

\* the step is a call of transform_ip
FrameStep == last'.op = "transform_ip" /\ filter'.radar_config = filter.radar_config

StagesOnlyWhenBound ==
    (FrameStep /\ StageCalls(last'.log) # <<>>) =>
        /\ BindingComplete
        /\ HandleLive
        /\ "call into an unloaded module" \notin last'.faults
        /\ "engine call without a live handle" \notin last'.faults

\* a buffer that arrives while the element is not started
InactiveArrival ==
    ~world.started /\ last'.op \in {"chain", "transform_ip"} /\ last' # last

NoCallWhileInactive ==
    InactiveArrival =>
        /\ last'.op = "chain" /\ last'.log = <<>>
        /\ filter' = filter /\ world' = world

-----------------------------------------------------------------------------
(* The rate limiters *)

\* lastFrameTimestamp: last_frame_time of the radar element, last_buffer_time
\* of the throttle
LastFrameTimestamp ==
    IF IsRadar THEN filter.last_frame_time ELSE throttle.last_buffer_time

FrameDuration ==
    IF IsRadar THEN filter.frame_duration ELSE throttle.frame_duration

\* a rate above zero has been set
LimitingEnabled ==
    IF IsRadar THEN filter.frame_duration # GST_CLOCK_TIME_NONE
    ELSE throttle.target_fps.num > 0

\* the step is a start that returned TRUE
StartStep == last'.op = "start" /\ ~world.started /\ world'.started

\* the timestamp after the step is a reading of the clock made during the
\* step
CurrentTimeRecorded ==
    /\ LastFrameTimestamp' # GST_CLOCK_TIME_NONE
    /\ last'.lim.arrival # GST_CLOCK_TIME_NONE
    /\ ~TimeLess(LastFrameTimestamp', last'.lim.arrival)
    /\ ~TimeLess(clock'.now, LastFrameTimestamp')

UnsetByStart == StartStep => LastFrameTimestamp' = GST_CLOCK_TIME_NONE

FirstFrameStep ==
    (FrameStep /\ LimitingEnabled /\ LastFrameTimestamp = GST_CLOCK_TIME_NONE)
        => /\ ~last'.lim.slept /\ last'.lim.wait = Zero
           /\ ~world'.crashed
           /\ CurrentTimeRecorded

\* C16: with a rate above zero set, a frame that finds lastFrameTimestamp
\* unset, as it is initially and after every start, passes the limiter
\* without a sleep and leaves the time read during the call as
\* lastFrameTimestamp.
C16_FirstFrameNotDelayed == [][UnsetByStart /\ FirstFrameStep]_vars

\* the time since lastFrameTimestamp on arrival
Elapsed == TimeSub(last'.lim.arrival, LastFrameTimestamp)

\* frameDuration - elapsed
Remainder == TimeSub(FrameDuration, Elapsed)

\* the sleep asked for is the remainder, to the microsecond below
WaitIsRemainder ==
    /\ last'.lim.slept
    /\ ~TimeLess(Remainder, last'.lim.wait)
    /\ TimeLess(TimeSub(Remainder, last'.lim.wait), Time(1, 0))

\* a frame that is not the first reads the clock
LaterFrameStep ==
    /\ FrameStep /\ LimitingEnabled
    /\ LastFrameTimestamp # GST_CLOCK_TIME_NONE
    /\ last'.lim.arrival # GST_CLOCK_TIME_NONE

EarlyFrameStep ==
    (LaterFrameStep /\ TimeLess(Elapsed, FrameDuration)) => WaitIsRemainder

\* C17: with a rate above zero set, a frame that is not the first and arrives
\* less than frameDuration = 1 s / rate after lastFrameTimestamp makes the
\* thread sleep for frameDuration minus the time elapsed, in whole
\* microseconds (80 ms for 10 frames a second and a frame 20 ms after the
\* last).
C17_WaitIsRemainder == [][EarlyFrameStep]_vars

\* after a sleep the timestamp is a reading made when the sleep was over
PostWaitRecorded ==
    (LaterFrameStep /\ last'.lim.slept)
        => /\ ~world'.crashed
           /\ CurrentTimeRecorded
           /\ ~TimeLess(LastFrameTimestamp',
                        TimeAdd(last'.lim.arrival, last'.lim.wait))

LateFrameStep ==
    (LaterFrameStep /\ ~TimeLess(Elapsed, FrameDuration))
        => /\ ~last'.lim.slept /\ last'.lim.wait = Zero
           /\ ~world'.crashed
           /\ CurrentTimeRecorded

\* a timestamp that is set is not followed by an earlier one
NeverDecreases ==
    (LastFrameTimestamp # GST_CLOCK_TIME_NONE /\
     LastFrameTimestamp' # GST_CLOCK_TIME_NONE)
        => ~TimeLess(LastFrameTimestamp', LastFrameTimestamp)

\* C18: a frame that slept leaves as lastFrameTimestamp a time read after
\* the sleep; a frame that arrives frameDuration or more after
\* lastFrameTimestamp does not sleep and leaves the time read during the
\* call; and lastFrameTimestamp never decreases.
C18_PostWaitTimeRecorded ==
    [][PostWaitRecorded /\ LateFrameStep /\ NeverDecreases]_vars

\* the last call set a rate that is not above zero
RateSetToNone ==
    /\ last.op = "set_property"
    /\ IF IsRadar THEN filter.frame_rate.num <= 0 ELSE throttle.target_fps.num <= 0

NoErrorOnZeroRate ==
    RateSetToNone =>
        /\ ~LimitingEnabled
        /\ \A i \in 1..Len(last.log) : last.log[i].ev # "GST_ELEMENT_ERROR"

UnlimitedFrameStep ==
    (FrameStep /\ ~LimitingEnabled)
        => /\ last'.lim = NoLimit
           /\ LastFrameTimestamp' = LastFrameTimestamp
           /\ clock' = clock

\* C19: setting a rate of zero (the property takes no value below it) raises
\* no error and disables limiting: every frame that follows passes without a
\* clock read or a sleep and leaves lastFrameTimestamp as it was.
C19_ZeroRateDisables == [][NoErrorOnZeroRate' /\ UnlimitedFrameStep]_vars

-----------------------------------------------------------------------------
(* Reordering *)

\* the samples of the cube
CubeSamples == cube.trn * cube.num_chirps * cube.adc_samples

\* the store moved the sample of chirp c, channel t, position s from
\* c * trn * adc_samples + t * adc_samples + s to
\* t * num_chirps * adc_samples + c * adc_samples + s
FollowsTheMap(p) ==
    LET c == p[2] \div (cube.trn * cube.adc_samples)
        t == (p[2] \div cube.adc_samples) % cube.trn
        s == p[2] % cube.adc_samples
    IN  /\ p[2] >= 0
        /\ p[1] = t * cube.num_chirps * cube.adc_samples + c * cube.adc_samples + s

\* C20: for every configured cube the reorder loops stay inside the staging
\* arrays and store each sample at the output index the map gives for its
\* input index; no position is read or written twice, and when the loops end
\* every input position was read and every output position written exactly
\* once.
C20_ReorderIsBijection ==
    /\ cube.faults = {}
    /\ cube.stores = Cardinality(cube.from)
    /\ \A p \in cube.from : FollowsTheMap(p)
    /\ \A p, q \in cube.from : (p[1] = q[1] \/ p[2] = q[2]) => p = q
    /\ cube.ended = "done" =>
          /\ {p[1] : p \in cube.from} = 0..(CubeSamples - 1)
          /\ {p[2] : p \in cube.from} = 0..(CubeSamples - 1)

-----------------------------------------------------------------------------
(* Staging buffers *)

\* both vectors hold channels x chirps x samples elements, the product taken
\* over the integers
StagingLength(f) ==
    /\ f.input_data = NumMul(NumMul(f.trn, f.num_chirps), f.adc_samples)
    /\ f.output_data = f.input_data

\* a frame leaves the vectors at the length they had
FrameKeepsLength ==
    FrameStep => /\ filter'.input_data = filter.input_data
                 /\ filter'.output_data = filter.output_data

\* C22: in every reachable state (before start, after start, between frames,
\* after stop) input_data and output_data both hold exactly trn x num_chirps x
\* adc_samples elements for the dimensions the element holds, and a frame
\* never resizes them.
C22_StagingLength == [][StagingLength(filter') /\ FrameKeepsLength]_vars

-----------------------------------------------------------------------------
(* Copy-back *)

\* the positions of the calls `ev` in the log
Positions(log, ev) == {i \in 1..Len(log) : log[i].ev = ev}

\* C23: a frame whose three stages returned success has its samples
\* overwritten, all of them, with the content of output_data, once, after
\* radarTracking returned success and before the record is attached; a frame
\* that does not complete the three stages is not written to.
C23_CopyBackAfterTrack ==
    last.op = "transform_ip" =>
        IF StagesCompleted(last.log)
        THEN /\ Count(last.log, "copy_back") = 1
             /\ Has(last.log, "copy_back", "output_data")
             /\ last.size = SizeMul(filter.output_data, Num(SIZEOF_COMPLEX_FLOAT))
             /\ \A i \in Positions(last.log, "copy_back") :
                   /\ \E k \in 1..(i - 1) :
                         last.log[k] = [ev |-> "radarTracking", arg |-> R_SUCCESS]
                   /\ \A j \in Positions(last.log, "add_meta") : i < j
        ELSE Count(last.log, "copy_back") = 0

\* a frame of the default configuration was copied back and got its record
C23_CopiedBackThenAttached ==
    /\ last.op = "transform_ip"
    /\ Has(last.log, "copy_back", "output_data")
    /\ Has(last.log, "add_meta", "attached")
    /\ last.size = Num(1048576)

-----------------------------------------------------------------------------
(* Failures that are not escalated *)

\* gst_buffer_add_meta gave no record
AttachFailed(log) == Has(log, "add_meta", "failed")

\* the record could not be attached, or its arrays could not be built
RecordFailed(l) ==
    AttachFailed(l.log) \/ "g_new could not allocate" \in l.faults

AttachFailureStep ==
    (FrameStep /\ RecordFailed(last'))
        => /\ last'.ret = GST_FLOW_OK
           /\ StagesCompleted(last'.log)
           /\ Has(last'.log, "copy_back", "output_data")
           /\ hist'.records = hist.records
           /\ filter'.total_frames = filter.total_frames + 1
           /\ filter'.total_processing_time > filter.total_processing_time
           /\ filter'.frame_id = filter.frame_id + 1
           /\ world' = world /\ ~world'.crashed

\* C27: a frame whose record cannot be built or attached is still emitted
\* with GST_FLOW_OK, its samples already copied back and no record on it;
\* total_frames and total_processing_time are updated and frame_id is
\* incremented as for a frame with a record.
C27_AttachFailureNotFatal == [][AttachFailureStep]_vars

\* the handle was live, and the engine refused to destroy it
DestroyRefused(log) ==
    \E i \in 1..Len(log) :
        log[i].ev = "radarDestroyHandle" /\ log[i].arg # R_SUCCESS

DestroyRefusedStep ==
    (StopStep /\ DestroyRefused(last'.log))
        => /\ last'.ret = "TRUE"
           /\ ~world'.started /\ ~world'.crashed
           /\ filter'.radar_handle = NULL
           /\ filter'.libradar_handle = NULL
           /\ world'.libRefs = world.libRefs - 1
           /\ Count(last'.log, "dlclose") = 1
           /\ filter'.radar_buffer = NULL /\ filter'.radar_buffer_size = 0
           /\ world'.scratch = "freed"
           /\ Count(last'.log, "free") = 1

\* C28: when radarDestroyHandle returns a non-success code during stop, the
\* stop still nulls the handle, closes the module, frees the scratch block
\* and returns TRUE.
C28_DestroyFailureNotEscalated == [][DestroyRefusedStep]_vars

\* a stop in which the engine returned the second error code from
\* radarDestroyHandle, after a frame had been processed
C28_StoppedAfterRefusedDestroy ==
    /\ last.op = "stop" /\ last.ret = "TRUE"
    /\ Has(last.log, "radarDestroyHandle", "R_ERROR_2")
    /\ filter.total_frames = 1
    /\ world.scratch = "freed"

-----------------------------------------------------------------------------
(* Configuration loading *)

\* the key is in the first element of the section's array
Present(section, key) ==
    section.shape = "array" /\ \E e \in section.first : e.key = key

\* what the file gives for a key that is present
Given(section, key) == (CHOOSE e \in section.first : e.key = key).n

\* the file cannot be read, is not JSON, or gives a key something that is
\* not a number
Unusable(doc) ==
    \/ doc.state # "parsed"
    \/ \E e \in doc.basic.first \cup doc.clustering.first : e.type # "number"

\* the member is the file's value when the key is present and the
\* constructor's default when it is not
DefaultOrOverride(section, keys) ==
    \A i \in 1..Len(keys) :
        file.config[FieldOf[keys[i]]] =
            IF Present(section, keys[i]) THEN Given(section, keys[i])
            ELSE RadarConfig[FieldOf[keys[i]]]

\* C29: after a start that read the file, every member whose key is absent
\* from the file, or whose section is absent or empty, has the constructor's
\* default (num_rx 4, num_tx 2, adc_samples 256, num_chirps 64) and every
\* member whose key is present has the file's value, and the element holds
\* those dimensions; a file that cannot be opened or parsed makes the load
\* fail and the start return FALSE without storing a dimension.
C29_DefaultsAndOverrides ==
    (last.op = "start" /\ file.read) =>
        IF Unusable(file.doc)
        THEN /\ ~file.ok
             /\ last.ret = "FALSE" /\ ~world.started
             /\ last.log = <<[ev |-> "GST_ERROR", arg |-> "Failed to load radar config"]>>
             /\ filter.num_rx = Num(0) /\ filter.trn = Num(0)
        ELSE /\ file.ok
             /\ RadarConfig.num_rx = 4 /\ RadarConfig.num_tx = 2
             /\ RadarConfig.adc_samples = 256 /\ RadarConfig.num_chirps = 64
             /\ DefaultOrOverride(file.doc.basic, BasicKeys)
             /\ DefaultOrOverride(file.doc.clustering, ClusteringKeys)
             /\ filter.num_rx = Num(file.config.num_rx)
             /\ filter.num_tx = Num(file.config.num_tx)
             /\ filter.num_chirps = Num(file.config.num_chirps)
             /\ filter.adc_samples = Num(file.config.adc_samples)
             /\ last.ret = "TRUE"

\* a start from a file that gives numTx and numChirps and nothing else: 4 x 3
\* channels, 32 chirps of 256 samples, at most 1000 points
C29_PartialOverride ==
    /\ last.op = "start" /\ last.ret = "TRUE"
    /\ file.config = [num_rx |-> 4, num_tx |-> 3, num_chirps |-> 32,
                      adc_samples |-> 256, max_points |-> 1000]
    /\ filter.trn = Num(12)

-----------------------------------------------------------------------------
(* DC removal *)

\* the parts `part` of the samples
Parts(data, part) == [i \in 1..Len(data) |-> data[i][part]]

AllFinite(xs) == \A i \in 1..Len(xs) : xs[i].k = "fin"

\* the least exponent of the floats that are not zero
MinExp(xs) ==
    LET es == {xs[i].e : i \in {j \in 1..Len(xs) : xs[j].m # 0}}
    IN  IF es = {} THEN 0 ELSE CHOOSE e \in es : \A x \in es : e <= x

RECURSIVE ScaledSum(_, _, _)
ScaledSum(xs, e, i) ==
    IF i = 0 THEN 0
    ELSE xs[i].s * xs[i].m * Pow2(xs[i].e - e) + ScaledSum(xs, e, i - 1)

\* a <= b for finite floats that are not negative
FLeq(a, b) == a.m = 0 \/ (b.m # 0 /\ (a.e < b.e \/ (a.e = b.e /\ a.m <= b.m)))

\* the largest magnitude among the floats
MaxAbs(xs) ==
    IF xs = <<>> THEN FZero
    ELSE LET i == CHOOSE j \in 1..Len(xs) :
                     \A k \in 1..Len(xs) : FLeq([xs[k] EXCEPT !.s = 1],
                                                 [xs[j] EXCEPT !.s = 1])
         IN  [xs[i] EXCEPT !.s = 1]

\* The mean of the floats `out` is zero to within FLT_EPSILON = 2^-23 of the
\* largest magnitude among `in`: |sum out| <= Len * 2^-23 * max |in|, the sum
\* taken exactly.
MeanIsZero(out, in) ==
    /\ AllFinite(out)
    /\ LET e == MinExp(out)
           sum == ScaledSum(out, e, Len(out))
           big == MaxAbs(in)
       IN  FLeq(RoundFin(1, Abs(sum), e, FALSE),
                RoundFin(1, big.m * Len(out), big.e - 23, FALSE))

\* C21: after dc_removal of a window of length L > 0 the mean of the real
\* parts and the mean of the imaginary parts are zero to within the float
\* epsilon; a window of length 0 is left as it was.
C21_MeanRemoved ==
    window.done =>
        IF Len(window.data) = 0 THEN window.out = window.data
        ELSE /\ MeanIsZero(Parts(window.out, "re"), Parts(window.data, "re"))
             /\ MeanIsZero(Parts(window.out, "im"), Parts(window.data, "im"))

\* ------------------------------------------------------------------------
\* The result record
\* ------------------------------------------------------------------------

\* the records there are: buffer b, record k on it
RecordsOn(h) == {<<b, k>> \in (1..Len(h.bufs)) \X (1..2) : k <= Len(h.bufs[b].records)}

RecordAt(h, p) == h.bufs[p[1]].records[p[2]]

\* the count a record stores for the group of an array
StoredCount(rec, group) ==
    CASE group = "points" -> rec.point_clouds_len
      [] group = "clusters" -> rec.num_clusters
      [] group = "tracks" -> rec.num_tracked_objects

\* the count the engine reported for a group
ReportedCount(views, group) ==
    CASE group = "points" -> views.points.len
      [] group = "clusters" -> views.clusters.n
      [] group = "tracks" -> views.tracks.len

\* array a of record r holds exactly the n elements the engine had for the
\* record's frame (the position where the engine gives no cluster indices),
\* and is absent when n is zero
HoldsEngineElements(h, r, a, n) ==
    IF n = 0 THEN r.rec.arr[a.meta] = nullptr
    ELSE /\ r.rec.arr[a.meta] \in (EngineArrays + 1)..(EngineArrays + Len(h.blocks))
         /\ LET data == h.blocks[r.rec.arr[a.meta] - EngineArrays].data
            IN  /\ Len(data) = n
                /\ \A i \in 1..n :
                     data[i] = IF a.meta = "cluster_idx" /\ r.reported.clusters.idx = nullptr
                               THEN i - 1
                               ELSE EngineCell(r.gen, a.member, i)

\* C24: for every record built, the point, cluster and track counts stored
\* in the record equal the counts the engine reported for that frame, each
\* array of the record holds exactly that many elements copied from the
\* engine's, and the arrays of a group are absent exactly when the reported
\* count is zero.
C24_CountsAndArrays ==
    \A p \in RecordsOn(heap) :
        LET r == RecordAt(heap, p)
        IN  \A k \in 1..Len(Arrays) :
                /\ StoredCount(r.rec, Arrays[k].group) = ReportedCount(r.reported, Arrays[k].group)
                /\ HoldsEngineElements(heap, r, Arrays[k],
                                       ReportedCount(r.reported, Arrays[k].group))

\* C30: every attached record respects the capacities: its tracked-object
\* count never exceeds the track capacity (64) and its point count never
\* exceeds the configured maximum number of points, whatever counts the
\* engine reports.
C30_CountsWithinCapacity ==
    \A p \in RecordsOn(heap) :
        LET r == RecordAt(heap, p)
        IN  /\ r.rec.num_tracked_objects <= r.reported.tracks.maxLen
            /\ r.rec.point_clouds_len <= r.reported.points.maxLen

\* the member of the engine's element an array of the record takes
MemberOf(name) == Arrays[CHOOSE k \in 1..Len(Arrays) : Arrays[k].meta = name].member

GroupOf(name) == Arrays[CHOOSE k \in 1..Len(Arrays) : Arrays[k].meta = name].group

\* what a reader of the record sees: the identifier, the counts, and behind
\* each array pointer as many elements as the group's count
Snapshot(h, rec) ==
    [frame_id |-> rec.frame_id,
     counts |-> <<rec.point_clouds_len, rec.num_clusters, rec.num_tracked_objects>>,
     arrays |-> [a \in ArrayNames |->
                   IF rec.arr[a] = nullptr THEN <<>>
                   ELSE [i \in 1..StoredCount(rec, GroupOf(a)) |->
                           ReadAt(h, rec.arr[a], MemberOf(a), i)]]]

\* no array of a record on a frame is one of the engine's
OwnsItsArrays(h) ==
    \A p \in RecordsOn(h) :
        h.bufs[p[1]].live =>
            \A a \in ArrayNames : RecordAt(h, p).rec.arr[a] \notin 1..EngineArrays

\* a step leaves what every record on a frame that stays shows as it was
SnapshotKept ==
    \A p \in RecordsOn(heap) :
        (heap.bufs[p[1]].live /\ heap'.bufs[p[1]].live) =>
            /\ p \in RecordsOn(heap')
            /\ Snapshot(heap', RecordAt(heap', p).rec) = Snapshot(heap, RecordAt(heap, p).rec)

\* C25: a result record is an independent snapshot: once attached to a
\* frame, its frame identifier, counts and array contents are unchanged by
\* any later engine call, later frame or stop, and none of its arrays is one
\* of the engine's.
C25_IndependentSnapshot == [][OwnsItsArrays(heap') /\ SnapshotKept]_vars

\* the record of the first frame is still on its frame after the engine has
\* processed a second frame and has been destroyed
C25_RecordOutlivesEngine ==
    /\ heap.gen = 2
    /\ ~heap.engine_live
    /\ \E p \in RecordsOn(heap) :
         /\ heap.bufs[p[1]].live
         /\ RecordAt(heap, p).gen = 1
         /\ RecordAt(heap, p).rec.point_clouds_len > 0
         /\ RecordAt(heap, p).rec.num_tracked_objects > 0

\* the records that hold the block at address addr
HoldersOf(h, addr) ==
    {p \in RecordsOn(h) : \E a \in ArrayNames : RecordAt(h, p).rec.arr[a] = addr}

\* C26: every record's arrays are released exactly once, when the frame
\* that owns the record is released and never earlier: no array is freed
\* twice, every array belongs to one record only, and an array is live
\* exactly while the frame of its record is.
C26_ReleasedOnceWithFrame ==
    /\ "g_free of a block already freed" \notin heap.faults
    /\ "g_free of an array the engine owns" \notin heap.faults
    /\ \A k \in 1..Len(heap.blocks) :
         /\ Cardinality(HoldersOf(heap, EngineArrays + k)) = 1
         /\ \A p \in HoldersOf(heap, EngineArrays + k) :
              (heap.blocks[k].state = "live") <=> heap.bufs[p[1]].live

\* two frames with records and a copy of one of them have all been released
C26_FramesAndCopyReleased ==
    /\ Len(heap.bufs) = MaxBuffers
    /\ \A b \in 1..Len(heap.bufs) : ~heap.bufs[b].live
    /\ Cardinality({b \in 1..Len(heap.bufs) : heap.bufs[b].records # <<>>}) = MaxRecords
    /\ \A k \in 1..Len(heap.blocks) : heap.blocks[k].state = "freed"
    /\ Len(heap.blocks) > Len(Arrays)

\* no frame's record is on two buffers
OneHolder(h) ==
    \A p \in RecordsOn(h) : \A q \in RecordsOn(h) :
        RecordAt(h, p).gen = RecordAt(h, q).gen => p = q

\* a step that adds a buffer without a new frame having been processed - a
\* copy - adds it without a record
CopyGetsNoRecord ==
    (Len(heap'.bufs) = Len(heap.bufs) + 1 /\ heap'.gen = heap.gen) =>
        heap'.bufs[Len(heap'.bufs)].records = <<>>

\* C31: the transform-on-copy hook reports failure and copies nothing, so a
\* record is never carried over to a copy of its frame: at any time a record
\* is attached to at most the one frame that produced it.
C31_RecordNotCarriedOver == [][CopyGetsNoRecord /\ OneHolder(heap')]_vars

\* a frame with a record of points and tracks has been copied: the frame
\* still has its record and the copy, still live, has none
C31_CopyWithoutRecord ==
    \E b \in 1..Len(heap.bufs) : \E c \in 1..Len(heap.bufs) :
        /\ heap.bufs[b].live
        /\ Len(heap.bufs[b].records) = 1
        /\ heap.bufs[b].records[1].rec.point_clouds_len > 0
        /\ heap.bufs[b].records[1].rec.num_tracked_objects > 0
        /\ heap.bufs[c].live
        /\ heap.bufs[c].records = <<>>

-----------------------------------------------------------------------------
(* The per-window temporary *)

\* C32: for every window length start accepts, the per-window temporary is
\* read and written only within its bounds while a frame is extracted,
\* DC-removed and reordered, window lengths above 256 included.
C32_TempSamplesInBounds == "temp_samples accessed past its end" \notin cube.faults

-----------------------------------------------------------------------------
(* Aborted frames *)

\* the last frame was aborted: its size was refused, or a stage returned a
\* code other than success
Aborted ==
    /\ last.op = "transform_ip"
    /\ last.ret = GST_FLOW_ERROR
    /\ (Has(last.log, "gst_buffer_unmap", "size mismatch") \/ StageFailed(last.log))

\* C33: a frame that is aborted (size mismatch, or a non-success code from
\* detect, cluster or track) is unmapped without its samples having been
\* written: the overwrite with output_data is made only for a frame whose
\* three stages all returned success.
C33_AbortLeavesSamples ==
    /\ Aborted =>
          /\ Count(last.log, "copy_back") = 0
          /\ last.log[Len(last.log)].ev = "gst_buffer_unmap"
    /\ (last.op = "transform_ip" /\ Count(last.log, "copy_back") > 0) =>
          /\ StagesCompleted(last.log)
          /\ ~StageFailed(last.log)
          /\ last.size = expected_size(filter)

\* after one completed frame, a frame passed detect and cluster and was
\* aborted by track
C33_AbortedByTrack ==
    /\ Aborted
    /\ hist.completed = 1
    /\ Has(last.log, "radarDetection", R_SUCCESS)
    /\ Has(last.log, "radarClustering", R_SUCCESS)
    /\ \E e \in RadarErrorCode \ {R_SUCCESS} : Has(last.log, "radarTracking", e)

-----------------------------------------------------------------------------
(* Identifier and statistics *)

\* the two counters move only in a frame whose three stages returned
\* success, and then both by one
CountersMoveTogether ==
    /\ filter'.frame_id - filter.frame_id = filter'.total_frames - filter.total_frames
    /\ IF last'.op = "transform_ip" /\ last'.ret = GST_FLOW_OK
       THEN /\ StagesCompleted(last'.log)
            /\ filter'.frame_id = filter.frame_id + 1
       ELSE filter'.frame_id = filter.frame_id

\* C34: in every reachable state frame_id equals total_frames: both start
\* at 0, are incremented together only by a frame that completed, and neither
\* is reset by stop or by a later start, so identifiers and statistics go on
\* across a restart of the instance.
C34_IdEqualsFramesProcessed ==
    /\ filter.frame_id = 0 /\ filter.total_frames = 0
    /\ [][CountersMoveTogether /\ filter'.frame_id = filter'.total_frames]_vars

\* the instance was stopped after a frame and has been started again: both
\* counters still read one
C34_RestartedAfterOneFrame ==
    /\ last.op = "start" /\ last.ret = "TRUE"
    /\ world.started
    /\ filter.frame_id = 1
    /\ filter.total_frames = 1
    /\ hist.records = <<0>>

-----------------------------------------------------------------------------
(* Pacing *)

\* a frame that is not the first and outlives the limiter leaves a timestamp
\* at least frameDuration after the one it found
SpacedStep ==
    (LaterFrameStep /\ ~world'.crashed)
        => /\ LastFrameTimestamp' # GST_CLOCK_TIME_NONE
           /\ ~TimeLess(LastFrameTimestamp',
                        TimeAdd(LastFrameTimestamp, FrameDuration))

\* C35: with limiting enabled and a sleep that lasts at least as long as
\* asked, two consecutive frames leave the limiter at least frameDuration
\* apart: each newly recorded lastFrameTimestamp is at or after the previous
\* one plus frameDuration.
C35_FramesSpaced == [][SpacedStep]_vars

\* the throttle asked for the remainder in whole microseconds, and the
\* conversion of the nanosecond count to int stayed in range
ThrottleSleepStep ==
    (IsThrottle /\ LaterFrameStep /\ TimeLess(Elapsed, FrameDuration))
        => /\ last'.lim.slept
           /\ last'.lim.wait = Time(GST_TIME_AS_USECONDS(Remainder), 0)
           /\ "conversion out of the range of int" \notin last'.faults

\* C36: in the throttle, for every target fps above zero and every elapsed
\* time below frameDuration, the sleep asked for is frameDuration - elapsed
\* truncated to whole microseconds, also when that is more than 2^31 - 1
\* nanoseconds (target fps below about 0.47): the conversion to a 32-bit
\* nanosecond count neither wraps nor goes negative.
C36_SleepNeverWraps == [][ThrottleSleepStep]_vars

\* C38: in the radar element's rate control the clock reference obtained for
\* the frame is never used after it has been released: every time read made
\* through it comes before the matching unref.
C38_NoReadAfterUnref ==
    IsRadar => "clock read after its last unref" \notin last.faults

-----------------------------------------------------------------------------
(* A start that cannot be configured *)

\* the call was a start that failed for want of a path or of a loadable file
ConfigFailure(l) ==
    /\ l.op = "start" /\ l.ret = "FALSE"
    /\ \/ l.log = <<[ev |-> "GST_ERROR", arg |-> "No radar config file specified"]>>
       \/ l.log = <<[ev |-> "GST_ERROR", arg |-> "Failed to load radar config"]>>

\* C37: when start fails because no configuration path is set or the
\* configuration cannot be loaded, the element is as it was before the call:
\* the dimensions, the derived channel count, the staging buffers, the
\* engine binding, the scratch buffer and the handle keep their values.
C37_ConfigFailureChangesNothing ==
    [][(Start /\ ConfigFailure(last')) => (filter' = filter /\ world' = world)]_vars

\* an instance that ran with a configuration and was stopped is started
\* again with a file that cannot be loaded: it keeps the dimensions of the
\* earlier run
C37_FailedRestartKeepsDimensions ==
    /\ ConfigFailure(last)
    /\ filter.radar_config # NULL
    /\ filter.trn # Num(0)
    /\ filter.adc_samples # Num(0)
    /\ filter.total_frames = 1

====
